---- MODULE Spec2Model ----
(***************************************************************************)
(* State-machine model of the SponsorStream match pipeline:                *)
(* MatchService (services/match_service.py), PolicyEngine                  *)
(* (domain/policy_engine.py), BudgetPacingEngine (modules/pacing/engine.py)*)
(* AnalyticsStore (modules/analytics/store.py), the Qdrant adapter         *)
(* (adapters/qdrant_vector_store.py) and the engine tools                  *)
(* (interface/mcp/tools.py).                                               *)
(*                                                                         *)
(* Fixed-point units.  Python floats are modelled by integers:             *)
(*   raw similarity score   tenths            (9  = 0.9)                   *)
(*   pacing weight          thousandths       (1000 = 1.0)                 *)
(*   boost factor           tenths            (10 = 1.0, 20 = 2.0)         *)
(*   final score            1/100000          (100000 = 1.0)               *)
(*   money                  thousandths of the currency unit, so that the  *)
(*                          imputed cost cpm / 1000 is the integer cpm     *)
(*   time                   clock ticks, DayLen ticks per UTC day          *)
(* Text is a tuple of one-character strings so that stripping, whitespace  *)
(* collapsing, tokenising, lower-casing and substring tests are computed.  *)
(***************************************************************************)
EXTENDS Integers, Sequences, FiniteSets, TLC

(***************************************************************************)
(* Bounds of the model                                                     *)
(***************************************************************************)
MaxRequests == 2
MaxTicks == 1
MaxAdminOps == 2
\* capacities of the three stores, scaled down (10000, 500 and 100 in the source)
TRACE_STORE_MAX == 3
EMBEDDING_CACHE_MAX_SIZE == 2
CACHE_MAX_SIZE == 2

(***************************************************************************)
(* Units and program constants                                             *)
(***************************************************************************)
DayLen == 2
WeightOne == 1000
WeightFloor == 100
BoostOne == 10
BoostMin == 1
BoostMax == 20
DefaultCpm == 10
ShortContextLen == 20
NoValue == -1

ScoreOne == 10 * WeightOne * BoostOne

Min2(a, b) == IF a < b THEN a ELSE b
Max2(a, b) == IF a > b THEN a ELSE b

(***************************************************************************)
(* Text helpers (str.strip, re.sub(r"\s+", " "), re.split, str.lower,      *)
(* the "in" operator on strings)                                           *)
(***************************************************************************)
IsWs(c) == c = " "

RECURSIVE LStrip(_)
LStrip(s) == IF s = <<>> THEN <<>>
             ELSE IF IsWs(Head(s)) THEN LStrip(Tail(s)) ELSE s

RECURSIVE RStrip(_)
RStrip(s) == IF s = <<>> THEN <<>>
             ELSE IF IsWs(s[Len(s)]) THEN RStrip(SubSeq(s, 1, Len(s) - 1)) ELSE s

Strip(s) == RStrip(LStrip(s))

RECURSIVE CollapseWs(_)
CollapseWs(s) ==
    IF s = <<>> THEN <<>>
    ELSE IF IsWs(Head(s))
         THEN <<" ">> \o CollapseWs(LStrip(Tail(s)))
         ELSE <<Head(s)>> \o CollapseWs(Tail(s))

\* the context stripped at its ends only
NormalizeTextStripOnly(s) == Strip(s)

\* match_service.py:74   _WHITESPACE_RE.sub(" ", request.context_text.strip())
NormalizeText(s) == CollapseWs(Strip(s))

LowerChar(c) == CASE c = "G" -> "g"
                  [] c = "A" -> "a"
                  [] c = "B" -> "b"
                  [] OTHER -> c

Lower(s) == [i \in 1..Len(s) |-> LowerChar(s[i])]

\* Python "k in t" on strings
IsSubstr(k, t) ==
    \E i \in 1..(Len(t) + 1) :
        /\ i + Len(k) - 1 <= Len(t)
        /\ SubSeq(t, i, i + Len(k) - 1) = k

\* the first whitespace-free word of s and the rest after it
RECURSIVE WordLen(_)
WordLen(s) == IF s = <<>> \/ IsWs(Head(s)) THEN 0 ELSE 1 + WordLen(Tail(s))

RECURSIVE SplitWs(_)
SplitWs(s) ==
    LET t == LStrip(s)
    IN IF t = <<>> THEN {}
       ELSE {SubSeq(t, 1, WordLen(t))} \cup SplitWs(SubSeq(t, WordLen(t) + 1, Len(t)))

\* policy_engine.py:14-16
TokenizeContext(text) == {Lower(t) : t \in SplitWs(Strip(text))}

SeqToSet(s) == {s[i] : i \in 1..Len(s)}

(***************************************************************************)
(* Payload attribute bag.  A flag is one of "true", "false", "null" or     *)
(* "missing" (key absent); numbers use NoValue for None / absent.          *)
(***************************************************************************)
FlagValues == {"true", "false", "null", "missing"}

\* meta.get(key, default) followed by a truth test
FlagGet(v, default) == IF v = "missing" THEN default ELSE v = "true"

(***************************************************************************)
(* PolicyEngine                                                            *)
(***************************************************************************)
\* policy_engine.py:31-38
ScheduleActive(payload, now) ==
    IF payload.start_at # NoValue /\ now < payload.start_at THEN FALSE
    ELSE IF payload.end_at # NoValue /\ now > payload.end_at THEN FALSE
    ELSE TRUE

\* the keywords looked for anywhere in the lower-cased context, across its
\* word boundaries too
BlockedKeywordsInText(payload, context_text) ==
    LET blocked == payload.blocked_keywords
    IN IF blocked = <<>> THEN FALSE
       ELSE \E i \in 1..Len(blocked) :
               IsSubstr(Lower(blocked[i]), Lower(context_text))

\* policy_engine.py:100-112
BlockedKeywordsIntersect(payload, context_text) ==
    LET blocked == payload.blocked_keywords
        tokens == TokenizeContext(context_text)
    IN IF blocked = <<>> THEN FALSE
       ELSE \E i \in 1..Len(blocked) :
               LET kw_lower == Lower(blocked[i])
               IN \/ kw_lower \in tokens
                  \/ \E t \in tokens : IsSubstr(kw_lower, t)

\* the sensitive check placed ahead of the age_restricted check
PolicyReasonSensitiveFirst(payload, constraints, context_text, now) ==
    IF ~FlagGet(payload.enabled, TRUE) THEN "denied: disabled"
    ELSE IF FlagGet(payload.sensitive, FALSE) /\ ~constraints.sensitive_ok
         THEN "denied: sensitive"
    ELSE IF FlagGet(payload.age_restricted, FALSE) /\ ~constraints.age_restricted_ok
         THEN "denied: age_restricted"
    ELSE IF BlockedKeywordsIntersect(payload, context_text)
         THEN "denied: blocked_keywords"
    ELSE IF ~ScheduleActive(payload, now) THEN "denied: schedule_inactive"
    ELSE "allowed"

\* policy_engine.py:58-78
PolicyReason(payload, constraints, context_text, now) ==
    IF ~FlagGet(payload.enabled, TRUE) THEN "denied: disabled"
    ELSE IF FlagGet(payload.age_restricted, FALSE) /\ ~constraints.age_restricted_ok
         THEN "denied: age_restricted"
    ELSE IF FlagGet(payload.sensitive, FALSE) /\ ~constraints.sensitive_ok
         THEN "denied: sensitive"
    ELSE IF BlockedKeywordsIntersect(payload, context_text)
         THEN "denied: blocked_keywords"
    ELSE IF ~ScheduleActive(payload, now) THEN "denied: schedule_inactive"
    ELSE "allowed"

\* policy_engine.py:80-98
PolicyAllowed(payload, constraints, context_text, now) ==
    IF ~FlagGet(payload.enabled, TRUE) THEN FALSE
    ELSE IF FlagGet(payload.age_restricted, FALSE) /\ ~constraints.age_restricted_ok
         THEN FALSE
    ELSE IF FlagGet(payload.sensitive, FALSE) /\ ~constraints.sensitive_ok
         THEN FALSE
    ELSE IF BlockedKeywordsIntersect(payload, context_text) THEN FALSE
    ELSE IF ~ScheduleActive(payload, now) THEN FALSE
    ELSE TRUE

\* Sequence filter keeping order
RECURSIVE SelectSeqBy(_, _)
SelectSeqBy(s, keep) ==
    IF s = <<>> THEN <<>>
    ELSE (IF keep[1] THEN <<Head(s)>> ELSE <<>>)
         \o SelectSeqBy(Tail(s), Tail(keep))

\* policy_engine.py:44-56
PolicyApply(hits, constraints, context_text, now) ==
    SelectSeqBy(hits,
        [i \in 1..Len(hits) |->
            PolicyAllowed(hits[i].payload, constraints, context_text, now)])

(***************************************************************************)
(* PolicyEngine on payloads as the index stores them, where a value may    *)
(* have any JSON shape.  A stored value is tagged with its shape:          *)
(*   "missing" key absent      "none"  null        "empty"  the string ""  *)
(*   "iso"     a timestamp string, ts its instant                          *)
(*   "text"    a string that is no timestamp       "zero"   the number 0   *)
(*   "number"  a non-zero number                                           *)
(* An outcome of "raised" is an exception leaving the function.            *)
(***************************************************************************)
StoredValue(shape, ts) == [shape |-> shape, ts |-> ts]

\* policy_engine.py:19-28: a falsy value is None; fromisoformat raises
\* ValueError (caught) on a string it cannot read and TypeError (not caught)
\* on anything that is no string
ParseIso(value) ==
    IF value.shape \in {"missing", "none", "empty", "zero"}
    THEN [raised |-> FALSE, dt |-> NoValue]
    ELSE IF value.shape = "iso" THEN [raised |-> FALSE, dt |-> value.ts]
    ELSE IF value.shape = "text" THEN [raised |-> FALSE, dt |-> NoValue]
    ELSE [raised |-> TRUE, dt |-> NoValue]

\* policy_engine.py:31-38 on stored values
ScheduleOutcome(payload, now) ==
    LET start_at == ParseIso(payload.start_at)
        end_at == ParseIso(payload.end_at)
    IN IF start_at.raised \/ end_at.raised THEN "raised"
       ELSE IF ScheduleActive([start_at |-> start_at.dt, end_at |-> end_at.dt], now)
            THEN "active" ELSE "inactive"

\* policy_engine.py:106-111: the loop over the stored keywords; kw.lower()
\* raises AttributeError on a keyword that is no string
RECURSIVE KeywordsOutcome(_, _)
KeywordsOutcome(items, tokens) ==
    IF items = <<>> THEN "clear"
    ELSE IF Head(items).shape # "text" THEN "raised"
    ELSE LET kw_lower == Lower(Head(items).text)
         IN IF kw_lower \in tokens \/ (\E t \in tokens : IsSubstr(kw_lower, t))
            THEN "hit"
            ELSE KeywordsOutcome(Tail(items), tokens)

\* policy_engine.py:100-112 on a stored value: absent, null or an empty
\* list is no keyword; a number cannot be iterated (TypeError)
BlockedKeywordsOutcome(payload, context_text) ==
    LET blocked == payload.blocked_keywords
    IN IF blocked.shape \in {"missing", "none", "zero"} THEN "clear"
       ELSE IF blocked.shape = "number" THEN "raised"
       ELSE IF blocked.items = <<>> THEN "clear"
       ELSE KeywordsOutcome(blocked.items, TokenizeContext(context_text))

\* policy_engine.py:80-98 on a stored payload
AllowedOutcome(payload, constraints, context_text, now) ==
    IF ~FlagGet(payload.enabled, TRUE) THEN "denied"
    ELSE IF FlagGet(payload.age_restricted, FALSE) /\ ~constraints.age_restricted_ok
         THEN "denied"
    ELSE IF FlagGet(payload.sensitive, FALSE) /\ ~constraints.sensitive_ok
         THEN "denied"
    ELSE LET blocked == BlockedKeywordsOutcome(payload, context_text)
         IN IF blocked = "raised" THEN "raised"
            ELSE IF blocked = "hit" THEN "denied"
            ELSE LET schedule == ScheduleOutcome(payload, now)
                 IN IF schedule = "raised" THEN "raised"
                    ELSE IF schedule = "inactive" THEN "denied"
                    ELSE "allowed"

\* policy_engine.py:44-56 on stored payloads: the first exception ends the
\* loop and leaves apply
ApplyOutcome(payloads, constraints, context_text, now) ==
    LET outcome == [i \in 1..Len(payloads) |->
                       AllowedOutcome(payloads[i], constraints, context_text, now)]
    IN IF \E i \in 1..Len(payloads) : outcome[i] = "raised"
       THEN [raised |-> TRUE, eligible |-> <<>>]
       ELSE [raised |-> FALSE,
             eligible |-> SelectSeqBy(payloads,
                              [i \in 1..Len(payloads) |-> outcome[i] = "allowed"])]

(***************************************************************************)
(* AnalyticsStore: the campaign_events table is the sequence of inserted   *)
(* rows, in insertion order                                                *)
(***************************************************************************)
\* rows of campaign_events selected by campaign_stats' WHERE clause
\* (analytics/store.py:110-118); since = NoValue stands for since=None
StatsRows(events, campaign_id, since) ==
    {i \in 1..Len(events) :
        /\ events[i].campaign_id = campaign_id
        /\ (since = NoValue \/ events[i].ts >= since)}

RECURSIVE SumCost(_, _)
SumCost(events, rows) ==
    IF rows = {} THEN 0
    ELSE LET i == CHOOSE j \in rows : TRUE
         IN events[i].cost + SumCost(events, rows \ {i})

RECURSIVE SumScore(_, _)
SumScore(events, rows) ==
    IF rows = {} THEN 0
    ELSE LET i == CHOOSE j \in rows : TRUE
         IN events[i].score + SumScore(events, rows \ {i})

\* analytics/store.py:104-133; the averages are kept as (sum, count)
CampaignStats(events, campaign_id, since) ==
    LET rows == StatsRows(events, campaign_id, since)
    IN [impressions |-> Cardinality(rows),
        spend |-> SumCost(events, rows),
        score_sum |-> SumScore(events, rows)]

\* analytics/store.py:195-197
HourLen == DayLen \div 24

RecentStats(events, campaign_id, now) ==
    CampaignStats(events, campaign_id, now - HourLen)

\* COALESCE(AVG(score), 0) < target
AvgScoreBelow(stats, target) ==
    IF stats.impressions = 0 THEN 0 < target
    ELSE stats.score_sum < target * stats.impressions

\* analytics/store.py:68-102
RecordMatch(events, ts, request_id, campaign_id, creative_id, score, pacing_weight, cost) ==
    Append(events, [ts |-> ts, request_id |-> request_id,
                    campaign_id |-> campaign_id, creative_id |-> creative_id,
                    score |-> score, pacing_weight |-> pacing_weight,
                    cost |-> cost])

(***************************************************************************)
(* BudgetPacingEngine                                                      *)
(***************************************************************************)
\* payload.get("cpm") or 10.0, divided by 1000 (money is in thousandths)
CostPerImpression(payload) ==
    IF payload.cpm = NoValue \/ payload.cpm = 0 THEN DefaultCpm ELSE payload.cpm

TodayStart(now) == (now \div DayLen) * DayLen

PacingDecision(allow, weight, reason) ==
    [allow |-> allow, weight |-> weight, reason |-> reason]

\* the weight lowered for spending ahead of schedule in every pacing mode
PacedWeightAnyMode(payload, spent_today, now) ==
    LET daily_budget == payload.daily_budget
        elapsed == now - TodayStart(now)
    IN IF daily_budget # NoValue /\ daily_budget > 0
          /\ elapsed > 0 /\ spent_today * DayLen > daily_budget * elapsed
       THEN Max2(WeightFloor,
                 (WeightOne * daily_budget * elapsed) \div (DayLen * spent_today))
       ELSE WeightOne

\* pacing/engine.py:51-60
PacedWeight(payload, spent_today, now) ==
    LET daily_budget == payload.daily_budget
        elapsed == now - TodayStart(now)
    IN IF daily_budget # NoValue /\ daily_budget > 0
          /\ elapsed > 0 /\ spent_today * DayLen > daily_budget * elapsed
       THEN IF payload.pacing_mode = "accelerated" THEN WeightOne
            ELSE Max2(WeightFloor,
                      (WeightOne * daily_budget * elapsed) \div (DayLen * spent_today))
       ELSE WeightOne

\* pacing/engine.py:62-65
AdaptiveWeight(payload, events, now, weight) ==
    IF payload.pacing_mode = "adaptive" /\ payload.target_ctr # NoValue
       /\ AvgScoreBelow(RecentStats(events, payload.campaign_id, now), payload.target_ctr)
    THEN Max2(WeightFloor, (weight * 8) \div 10)
    ELSE weight

\* the total-budget check taken with > in place of >=
PacingEvaluateLateTotal(payload, analytics_present, events, now) ==
    IF payload.campaign_id = "" \/ ~analytics_present
    THEN PacingDecision(TRUE, WeightOne, "no_analytics")
    ELSE
      LET spent_today == CampaignStats(events, payload.campaign_id, TodayStart(now)).spend
          spent_total == CampaignStats(events, payload.campaign_id, NoValue).spend
      IN IF payload.total_budget # NoValue /\ spent_total > payload.total_budget
         THEN PacingDecision(FALSE, 0, "total_budget_exhausted")
         ELSE IF payload.daily_budget # NoValue /\ spent_today >= payload.daily_budget
         THEN PacingDecision(FALSE, 0, "daily_budget_exhausted")
         ELSE LET weight == AdaptiveWeight(payload, events, now,
                                PacedWeight(payload, spent_today, now))
              IN PacingDecision(TRUE, weight,
                     IF weight < WeightOne THEN "paced" ELSE "within_budget")

\* the daily-budget check placed ahead of the total-budget check
PacingEvaluateDailyFirst(payload, analytics_present, events, now) ==
    IF payload.campaign_id = "" \/ ~analytics_present
    THEN PacingDecision(TRUE, WeightOne, "no_analytics")
    ELSE
      LET spent_today == CampaignStats(events, payload.campaign_id, TodayStart(now)).spend
          spent_total == CampaignStats(events, payload.campaign_id, NoValue).spend
      IN IF payload.daily_budget # NoValue /\ spent_today >= payload.daily_budget
         THEN PacingDecision(FALSE, 0, "daily_budget_exhausted")
         ELSE IF payload.total_budget # NoValue /\ spent_total >= payload.total_budget
         THEN PacingDecision(FALSE, 0, "total_budget_exhausted")
         ELSE LET weight == AdaptiveWeight(payload, events, now,
                                PacedWeight(payload, spent_today, now))
              IN PacingDecision(TRUE, weight,
                     IF weight < WeightOne THEN "paced" ELSE "within_budget")

\* pacing/engine.py:26-68
PacingEvaluate(payload, analytics_present, events, now) ==
    IF payload.campaign_id = "" \/ ~analytics_present
    THEN PacingDecision(TRUE, WeightOne, "no_analytics")
    ELSE
      LET spent_today == CampaignStats(events, payload.campaign_id, TodayStart(now)).spend
          spent_total == CampaignStats(events, payload.campaign_id, NoValue).spend
      IN IF payload.total_budget # NoValue /\ spent_total >= payload.total_budget
         THEN PacingDecision(FALSE, 0, "total_budget_exhausted")
         ELSE IF payload.daily_budget # NoValue /\ spent_today >= payload.daily_budget
         THEN PacingDecision(FALSE, 0, "daily_budget_exhausted")
         ELSE LET weight == AdaptiveWeight(payload, events, now,
                                PacedWeight(payload, spent_today, now))
              IN PacingDecision(TRUE, weight,
                     IF weight < WeightOne THEN "paced" ELSE "within_budget")

(***************************************************************************)
(* Boost and candidate assembly (MatchService)                             *)
(***************************************************************************)
\* the factor taken as the caller gave it
ClampBoostAbsent(factor) == factor

\* max(0.1, min(2.0, factor))
ClampBoost(factor) == Max2(BoostMin, Min2(BoostMax, factor))

\* match_service.py:95-100; a later entry with the same lower-cased key
\* overwrites the earlier one
BoostLookup(boost_keywords) ==
    LET keys == {Lower(boost_keywords[i][1]) : i \in 1..Len(boost_keywords)}
        last(k) == CHOOSE i \in 1..Len(boost_keywords) :
                      /\ Lower(boost_keywords[i][1]) = k
                      /\ \A j \in (i + 1)..Len(boost_keywords) :
                            Lower(boost_keywords[j][1]) # k
    IN [k \in keys |-> ClampBoost(boost_keywords[last(k)][2])]

KeywordApplies(keyword, payload) ==
    \/ IsSubstr(keyword, Lower(payload.title))
    \/ IsSubstr(keyword, Lower(payload.body))
    \/ keyword \in {Lower(payload.topics[i]) : i \in 1..Len(payload.topics)}

RECURSIVE SetMax(_)
SetMax(S) == IF S = {} THEN 0
             ELSE LET x == CHOOSE y \in S : TRUE IN Max2(x, SetMax(S \ {x}))

\* match_service.py:146-156
BoostFactor(boost_lookup, payload) ==
    Max2(BoostOne,
         SetMax({boost_lookup[k] : k \in {q \in DOMAIN boost_lookup :
                                              KeywordApplies(q, payload)}}))

\* an id derived from the creative alone
NewMatchIdCreativeOnly(request_id, creative_id) == <<0, creative_id>>

\* ports/id_gen.py:38-39  uuid5(request_id, creative_id)
NewMatchId(request_id, creative_id) == <<request_id, creative_id>>

\* the clamp taken on the retrieval score alone, before the product
FinalScoreClampFirst(raw_score, pacing_weight, boost_factor) ==
    Max2(0, Min2(BoostOne, raw_score)) * pacing_weight * boost_factor

\* match_service.py:224
FinalScore(raw_score, pacing_weight, boost_factor) ==
    Max2(0, Min2(ScoreOne, raw_score * pacing_weight * boost_factor))

\* match_service.py:216-242
HitToCandidate(hit, request_id, pacing_weight, pacing_reason, boost_factor) ==
    [creative_id |-> hit.creative_id,
     campaign_id |-> hit.campaign_id,
     score |-> FinalScore(hit.score, pacing_weight, boost_factor),
     match_id |-> NewMatchId(request_id, hit.creative_id),
     pacing_weight |-> pacing_weight,
     pacing_reason |-> pacing_reason,
     boost_applied |-> boost_factor]

(***************************************************************************)
(* Targeting engine and the index adapter                                  *)
(***************************************************************************)
FieldFilter(field, op, value) == [field |-> field, op |-> op, value |-> value]

\* models/mcp_requests.py:8-18
PlacementContext(placement, surface) == [placement |-> placement, surface |-> surface]

\* a filter that also restricts the placement and, unless age-restricted
\* creatives are allowed, the age_restricted flag
BuildFilterPlacementAware(constraints, placement) ==
    [must |->
        (IF constraints.topics # <<>>
         THEN <<FieldFilter("topics", "any_of", constraints.topics)>> ELSE <<>>)
        \o (IF constraints.locale # ""
            THEN <<FieldFilter("locale", "any_of", <<constraints.locale, "">>)>> ELSE <<>>)
        \o (IF constraints.verticals # <<>>
            THEN <<FieldFilter("verticals", "any_of", constraints.verticals)>>
            ELSE <<>>)
        \o (IF constraints.audience_segments # <<>>
            THEN <<FieldFilter("audience_segments", "any_of",
                               constraints.audience_segments)>>
            ELSE <<>>)
        \o (IF constraints.keywords # <<>>
            THEN <<FieldFilter("keywords", "any_of", constraints.keywords)>>
            ELSE <<>>)
        \o <<FieldFilter("placement", "any_of", <<placement.placement>>)>>
        \o (IF ~constraints.age_restricted_ok
            THEN <<FieldFilter("age_restricted", "any_of", <<"false">>)>> ELSE <<>>),
     must_not |->
        (IF constraints.exclude_advertiser_ids # <<>>
         THEN <<FieldFilter("advertiser_id", "not_in",
                            constraints.exclude_advertiser_ids)>>
         ELSE <<>>)
        \o (IF constraints.exclude_campaign_ids # <<>>
            THEN <<FieldFilter("campaign_id", "not_in",
                               constraints.exclude_campaign_ids)>>
            ELSE <<>>)
        \o (IF constraints.exclude_creative_ids # <<>>
            THEN <<FieldFilter("creative_id", "not_in",
                               constraints.exclude_creative_ids)>>
            ELSE <<>>)]

\* domain/targeting_engine.py:12-74; an unset (None) list or locale is the
\* empty one, both being falsy
BuildFilter(constraints, placement) ==
    [must |->
        (IF constraints.topics # <<>>
         THEN <<FieldFilter("topics", "any_of", constraints.topics)>> ELSE <<>>)
        \o (IF constraints.locale # ""
            THEN <<FieldFilter("locale", "any_of", <<constraints.locale, "">>)>> ELSE <<>>)
        \o (IF constraints.verticals # <<>>
            THEN <<FieldFilter("verticals", "any_of", constraints.verticals)>>
            ELSE <<>>)
        \o (IF constraints.audience_segments # <<>>
            THEN <<FieldFilter("audience_segments", "any_of",
                               constraints.audience_segments)>>
            ELSE <<>>)
        \o (IF constraints.keywords # <<>>
            THEN <<FieldFilter("keywords", "any_of", constraints.keywords)>>
            ELSE <<>>),
     must_not |->
        (IF constraints.exclude_advertiser_ids # <<>>
         THEN <<FieldFilter("advertiser_id", "not_in",
                            constraints.exclude_advertiser_ids)>>
         ELSE <<>>)
        \o (IF constraints.exclude_campaign_ids # <<>>
            THEN <<FieldFilter("campaign_id", "not_in",
                               constraints.exclude_campaign_ids)>>
            ELSE <<>>)
        \o (IF constraints.exclude_creative_ids # <<>>
            THEN <<FieldFilter("creative_id", "not_in",
                               constraints.exclude_creative_ids)>>
            ELSE <<>>)]

\* A Qdrant FieldCondition: the payload key and the set of values it matches
FieldCondition(key, any) == [key |-> key, any |-> any]

\* qdrant_vector_store.py:285-304; every operator becomes a value match,
\* negation comes from the must_not list the condition is placed in
TranslateCondition(f) == FieldCondition(f.field, SeqToSet(f.value))

\* qdrant_vector_store.py:276-283
TranslateFilter(vf) ==
    [must |-> [i \in 1..Len(vf.must) |-> TranslateCondition(vf.must[i])],
     must_not |-> [i \in 1..Len(vf.must_not) |-> TranslateCondition(vf.must_not[i])]]

\* the caller's filter passed on as it came
EnsureEnabledFilterAbsent(qf) ==
    [must |-> qf.must, must_not |-> qf.must_not]

\* qdrant_vector_store.py:256-262
EnsureEnabledFilter(qf) ==
    [must |-> qf.must,
     must_not |-> qf.must_not \o <<FieldCondition("enabled", {"false"})>>]

\* the values a stored payload holds under a key (none when the key is absent)
PayloadValues(payload, key) ==
    CASE key = "topics" -> SeqToSet(payload.topics)
      [] key = "locale" -> SeqToSet(payload.locale)
      [] key = "verticals" -> SeqToSet(payload.verticals)
      [] key = "audience_segments" -> SeqToSet(payload.audience_segments)
      [] key = "keywords" -> SeqToSet(payload.keywords)
      [] key = "advertiser_id" -> {payload.advertiser_id}
      [] key = "campaign_id" -> {payload.campaign_id}
      [] key = "creative_id" -> {payload.creative_id}
      [] key = "enabled" -> IF payload.enabled = "missing" THEN {} ELSE {payload.enabled}

ConditionMatches(cond, payload) ==
    \E v \in PayloadValues(payload, cond.key) : v \in cond.any

\* Qdrant filter semantics: all of must, none of must_not
FilterMatches(qf, payload) ==
    /\ \A i \in 1..Len(qf.must) : ConditionMatches(qf.must[i], payload)
    /\ \A i \in 1..Len(qf.must_not) : ~ConditionMatches(qf.must_not[i], payload)

(***************************************************************************)
(* Catalog, embedding and similarity.  The embedding model and the vector  *)
(* search are opaque collaborators: Embed is an injective function of the  *)
(* text, Similarity a fixed function of vector and creative.               *)
(***************************************************************************)
CreativeIds == {"c1", "c2", "c3", "c4", "c5"}

BasePayload ==
    [creative_id |-> "", campaign_id |-> "", advertiser_id |-> "adv1",
     title |-> <<>>, body |-> <<>>, topics |-> <<>>, locale |-> <<>>,
     verticals |-> <<>>, audience_segments |-> <<>>, keywords |-> <<>>,
     blocked_keywords |-> <<>>, enabled |-> "true",
     age_restricted |-> "false", sensitive |-> "false",
     start_at |-> NoValue, end_at |-> NoValue,
     total_budget |-> NoValue, daily_budget |-> NoValue,
     pacing_mode |-> "even", cpm |-> NoValue, target_ctr |-> NoValue]

Catalog ==
    [c \in CreativeIds |->
       CASE c = "c1" -> [BasePayload EXCEPT !.creative_id = "c1", !.campaign_id = "A",
                            !.title = <<"G", "a">>, !.locale = <<"en-US">>,
                            !.total_budget = 20, !.daily_budget = 15, !.cpm = 10]
         [] c = "c2" -> [BasePayload EXCEPT !.creative_id = "c2", !.campaign_id = "A",
                            !.enabled = "missing", !.locale = <<"">>,
                            !.total_budget = 20, !.daily_budget = 15, !.cpm = 0]
         [] c = "c3" -> [BasePayload EXCEPT !.creative_id = "c3", !.campaign_id = "B",
                            !.title = <<"b">>, !.locale = <<"en-US">>,
                            !.daily_budget = 10, !.cpm = 10]
         [] c = "c4" -> [BasePayload EXCEPT !.creative_id = "c4",
                            !.topics = <<<<"b">>>>, !.start_at = 2]
         [] c = "c5" -> [BasePayload EXCEPT !.creative_id = "c5", !.campaign_id = "C",
                            !.advertiser_id = "adv2", !.age_restricted = "true",
                            !.blocked_keywords = <<<<"B">>>>, !.end_at = 0]]

BaseScore == [c \in CreativeIds |->
                CASE c = "c1" -> 12 [] c = "c2" -> 9 [] c = "c3" -> 7
                  [] c = "c4" -> 0 - 1 [] c = "c5" -> 5]

\* ports/embedding.py  embed(text)
Embed(text) == text

WsCount(v) == Cardinality({i \in 1..Len(v) : IsWs(v[i])})

Similarity(vector, c) == BaseScore[c] - WsCount(vector)

max_top_k == 100

VectorHit(payload, score) ==
    [creative_id |-> payload.creative_id, campaign_id |-> payload.campaign_id,
     advertiser_id |-> payload.advertiser_id, score |-> score, payload |-> payload]

\* the k best-scoring points of S, best first
RECURSIVE TopHits(_, _, _, _)
TopHits(stored, vector, S, k) ==
    IF S = {} \/ k <= 0 THEN <<>>
    ELSE LET best == CHOOSE c \in S :
                        \A d \in S : Similarity(vector, c) >= Similarity(vector, d)
         IN <<VectorHit(stored[best], Similarity(vector, best))>>
            \o TopHits(stored, vector, S \ {best}, k - 1)

\* qdrant_vector_store.py:65-67  the filter handed to client.query_points
QueryFilter(vector_filter) == EnsureEnabledFilter(TranslateFilter(vector_filter))

\* qdrant_vector_store.py:55-84; stored maps the ids of the stored points
\* to their payloads
Query(stored, vector, vector_filter, top_k) ==
    LET effective_k == Min2(top_k, max_top_k)
        qf == QueryFilter(vector_filter)
    IN TopHits(stored, vector,
               {c \in DOMAIN stored : FilterMatches(qf, stored[c])}, effective_k)

(***************************************************************************)
(* Requests                                                                *)
(***************************************************************************)
MatchConstraints ==
    [topics |-> <<>>, locale |-> "", verticals |-> <<>>,
     audience_segments |-> <<>>, keywords |-> <<>>,
     exclude_advertiser_ids |-> <<>>, exclude_campaign_ids |-> <<>>,
     exclude_creative_ids |-> <<>>,
     age_restricted_ok |-> FALSE, sensitive_ok |-> FALSE]

MatchRequest(context_text, top_k, placement, surface, constraints, boost_keywords) ==
    [context_text |-> context_text, top_k |-> top_k, placement |-> placement,
     surface |-> surface, constraints |-> constraints,
     boost_keywords |-> boost_keywords]

\* mcp_requests.py:69-79  the field constraints pydantic enforces when a
\* request is built: context_text of 1 to 10000 characters (nothing is
\* stripped), top_k of 1 to 100
ValidMatchRequest(req) ==
    /\ Len(req.context_text) >= 1
    /\ Len(req.context_text) <= 10000
    /\ req.top_k >= 1
    /\ req.top_k <= 100

\* request_templates.py:115-146
TemplateSearchResults(query) ==
    MatchRequest(query, 2, "inline", "search",
                 [MatchConstraints EXCEPT !.locale = "en-US"], <<>>)

CtxGa == <<"g", "a">>
CtxGaB == <<"g", "a", " ", "b">>
CtxGaWideB == <<"g", "a", " ", " ", "b">>
CtxUpper == <<" ", "G", "a">>

ReqA == MatchRequest(CtxGa, 2, "inline", "chat", MatchConstraints,
                     <<<<<<"g", "A">>, 15>>>>)
ReqB == MatchRequest(CtxGaB, 2, "inline", "chat",
                     [MatchConstraints EXCEPT !.exclude_campaign_ids = <<"A">>], <<>>)
ReqBWide == [ReqB EXCEPT !.context_text = CtxGaWideB]
\* a context of whitespace only, and no context at all
ReqBlank == MatchRequest(<<" ", " ">>, 2, "inline", "chat", MatchConstraints, <<>>)
ReqEmpty == MatchRequest(<<>>, 2, "inline", "chat", MatchConstraints, <<>>)
\* the boost lifts the second hit over the first
ReqD == MatchRequest(CtxGa, 2, "inline", "chat",
                     [MatchConstraints EXCEPT !.exclude_creative_ids = <<"c1">>],
                     <<<<<<"b">>, 20>>>>)
ReqC == MatchRequest(CtxUpper, 2, "sidebar", "feed",
                     [MatchConstraints EXCEPT !.exclude_campaign_ids = <<"A", "B">>,
                                              !.age_restricted_ok = TRUE],
                     <<<<<<"B">>, 25>>, <<<<"g", "a">>, 15>>>>)

(***************************************************************************)
(* State                                                                   *)
(***************************************************************************)
VARIABLES
    now,                \* the UTC wall clock, in ticks
    points,             \* the vector index: point id -> stored payload
    events,             \* AnalyticsStore: rows of campaign_events
    analytics_present,  \* MatchService._analytics is not None
    embedding_cache,    \* _EMBEDDING_CACHE, entries in insertion order
    match_cache,        \* _MATCH_CACHE, entries in insertion order
    trace_store,        \* _trace_store, entries in insertion order
    heap,               \* audit-trace dict objects, by the request that built them
    next_rid,           \* source of fresh request ids
    calls,              \* number of service calls started
    admin_ops,          \* number of index mutations done (the index version)
    wk,                 \* per task: position in MatchService.match and its locals
    hist,               \* results handed back to callers, in order
    limit,              \* how many calls, clock ticks and index mutations a run explores
    ticks,              \* number of clock ticks taken
    peak,               \* most requests that were in flight at the same time
    probe               \* input and result of a pure function under test

vars == <<limit, ticks, peak, now, points, events, analytics_present, embedding_cache, match_cache,
          trace_store, heap, next_rid, calls, admin_ops, wk, hist, probe>>

Workers == {1, 2}

ConstraintNames == {"disabled", "age_restricted", "sensitive",
                    "blocked_keywords", "schedule_inactive", "pacing"}

NoRejections == [k \in ConstraintNames |-> 0]

\* match_service.py:122   reason.replace("denied: ", "").split(":")[0]
ConstraintOf(reason) ==
    CASE reason = "denied: disabled" -> "disabled"
      [] reason = "denied: age_restricted" -> "age_restricted"
      [] reason = "denied: sensitive" -> "sensitive"
      [] reason = "denied: blocked_keywords" -> "blocked_keywords"
      [] reason = "denied: schedule_inactive" -> "schedule_inactive"

IsDenied(reason) == reason \in {"denied: disabled", "denied: age_restricted",
                                "denied: sensitive", "denied: blocked_keywords",
                                "denied: schedule_inactive"}

\* f"pacing:{pacing.reason}"
PacingTag(reason) ==
    CASE reason = "total_budget_exhausted" -> "pacing:total_budget_exhausted"
      [] reason = "daily_budget_exhausted" -> "pacing:daily_budget_exhausted"

IsPacingTag(reason) == reason \in {"pacing:total_budget_exhausted",
                                   "pacing:daily_budget_exhausted"}

NoMatchId == <<>>

Decision(hit, reason) ==
    [creative_id |-> hit.creative_id, campaign_id |-> hit.campaign_id,
     score |-> hit.score, reason |-> reason,
     match_id |-> NoMatchId, pacing_weight |-> NoValue, boost_applied |-> NoValue]

IdleTask ==
    [pc |-> "idle", tool |-> "", req |-> ReqA, rid |-> 0, vector |-> <<>>,
     query_filter |-> [must |-> <<>>, must_not |-> <<>>],
     raw_hits |-> <<>>, eligible |-> <<>>, decisions |-> <<>>,
     rejections |-> NoRejections, candidates |-> <<>>, idx |-> 0,
     pace_log |-> <<>>, ev_start |-> 0, now_start |-> 0, ver_start |-> 0,
     oldest |-> <<>>, overrides |-> {}]

NoTrace ==
    [request_id |-> 0, placement |-> "", context_text |-> <<>>,
     constraints |-> MatchConstraints, boost_keywords |-> <<>>,
     decisions |-> <<>>, source |-> "", method |-> ""]

NoProbe == [kind |-> "none"]

InitialPoints == Catalog

InitCommon ==
    /\ ticks = 0
    /\ peak = 0
    /\ points = InitialPoints
    /\ events = <<>>
    /\ embedding_cache = <<>>
    /\ match_cache = <<>>
    /\ trace_store = <<>>
    /\ heap = <<>>
    /\ next_rid = 1
    /\ calls = 0
    /\ admin_ops = 0
    /\ wk = [w \in Workers |-> IdleTask]
    /\ hist = <<>>

Init ==
    /\ InitCommon
    /\ limit = [calls |-> MaxRequests, ticks |-> MaxTicks, admin |-> 0]
    /\ now \in 0..1
    /\ analytics_present \in BOOLEAN
    /\ probe = NoProbe

(***************************************************************************)
(* Python dicts with insertion order: a sequence of [key, val] entries     *)
(***************************************************************************)
DictKeys(d) == {d[i].key : i \in 1..Len(d)}

DictHas(d, k) == k \in DictKeys(d)

DictGet(d, k) == d[CHOOSE i \in 1..Len(d) : d[i].key = k].val

\* d[k] = v : an existing key keeps its position
DictSet(d, k, v) ==
    IF DictHas(d, k)
    THEN [i \in 1..Len(d) |-> IF d[i].key = k THEN [key |-> k, val |-> v] ELSE d[i]]
    ELSE Append(d, [key |-> k, val |-> v])

\* d.popitem(): the entry inserted last goes
DictPopLast(d) == SubSeq(d, 1, Len(d) - 1)

\* d.pop(next(iter(d)))
DictPopFirst(d) == Tail(d)

(***************************************************************************)
(* MatchService caches and the audit-trace store                           *)
(***************************************************************************)
\* match_service.py:381-397; sha256 of the canonical JSON is the tuple itself
ComputeCacheKey(request) ==
    [context |-> Strip(request.context_text), top_k |-> request.top_k,
     placement |-> request.placement, surface |-> request.surface,
     constraints |-> request.constraints,
     boost_keywords |-> SeqToSet(request.boost_keywords)]

\* match_service.py:459-464
EmbeddingCacheInsert(cache, text_hash, embedding) ==
    DictSet(IF Len(cache) >= EMBEDDING_CACHE_MAX_SIZE THEN DictPopFirst(cache) ELSE cache,
            text_hash, embedding)

\* match_service.py:421-426
MatchCacheInsert(cache, cache_key, entry) ==
    DictSet(IF Len(cache) >= CACHE_MAX_SIZE THEN DictPopFirst(cache) ELSE cache,
            cache_key, entry)

RECURSIVE TrimTraceStore(_)
TrimTraceStore(store) ==
    IF Len(store) > TRACE_STORE_MAX THEN TrimTraceStore(DictPopFirst(store)) ELSE store

RECURSIVE StoreAll(_, _, _)
StoreAll(store, candidates, trace) ==
    IF candidates = <<>> THEN store
    ELSE StoreAll(DictSet(store, Head(candidates).match_id, trace),
                  Tail(candidates), trace)

\* interface/mcp/tools.py:104-114
StoreTraceForExplain(store, candidates, trace) ==
    TrimTraceStore(StoreAll(store, candidates, trace))

(***************************************************************************)
(* MatchService.match, one action per stage                                *)
(***************************************************************************)
Tools == {"match", "template", "match_cached", "match_batch", "match_dry_run"}

\* match_service.py:62-72 (and 409-418 for match_cached on a miss)
StartMatch(w, tool, req) ==
    /\ wk[w].pc = "idle"
    /\ ValidMatchRequest(req)
    /\ calls < limit.calls
    /\ tool = "match_cached" => ~DictHas(match_cache, ComputeCacheKey(req))
    /\ calls' = calls + 1
    /\ next_rid' = next_rid + 1
    /\ heap' = Append(heap, NoTrace)
    /\ wk' = [wk EXCEPT ![w] =
                [IdleTask EXCEPT !.pc = "embed", !.tool = tool, !.req = req,
                                 !.rid = next_rid, !.ev_start = Len(events),
                                 !.now_start = now, !.ver_start = admin_ops]]
    /\ peak' = Max2(peak, Cardinality({v \in Workers : wk'[v].pc # "idle"}))
    /\ probe' = NoProbe
    /\ UNCHANGED <<limit, ticks, now, points, events, analytics_present,
                   embedding_cache, match_cache, trace_store, admin_ops, hist>>

\* constraints.model_copy(update=overrides): the named fields are replaced
ModelCopy(constraints, overrides) ==
    LET Has(name) == \E p \in overrides : p[1] = name
        Value(name) == (CHOOSE p \in overrides : p[1] = name)[2]
    IN [constraints EXCEPT
          !.age_restricted_ok = IF Has("age_restricted_ok")
                                THEN Value("age_restricted_ok") ELSE @,
          !.sensitive_ok = IF Has("sensitive_ok") THEN Value("sensitive_ok") ELSE @]

\* match_service.py:299-321  match_dry_run up to its call of match, which
\* runs on the request with the overridden constraints
StartDryRun(w, req, overrides) ==
    /\ wk[w].pc = "idle"
    /\ ValidMatchRequest(req)
    /\ calls < limit.calls
    /\ calls' = calls + 1
    /\ next_rid' = next_rid + 1
    /\ heap' = Append(heap, NoTrace)
    /\ wk' = [wk EXCEPT ![w] =
                [IdleTask EXCEPT !.pc = "embed", !.tool = "match_dry_run",
                                 !.req = [req EXCEPT !.constraints =
                                             ModelCopy(req.constraints, overrides)],
                                 !.overrides = overrides,
                                 !.rid = next_rid, !.ev_start = Len(events),
                                 !.now_start = now, !.ver_start = admin_ops]]
    /\ peak' = Max2(peak, Cardinality({v \in Workers : wk'[v].pc # "idle"}))
    /\ probe' = NoProbe
    /\ UNCHANGED <<limit, ticks, now, points, events, analytics_present,
                   embedding_cache, match_cache, trace_store, admin_ops, hist>>

\* match_service.py:74-77 and 436-466
EmbedStep(w) ==
    /\ wk[w].pc = "embed"
    /\ LET text == NormalizeText(wk[w].req.context_text)
           text_hash == text
       IN IF DictHas(embedding_cache, text_hash)
          THEN /\ wk' = [wk EXCEPT ![w].pc = "retrieve",
                                   ![w].vector = DictGet(embedding_cache, text_hash)]
               /\ UNCHANGED embedding_cache
          ELSE /\ wk' = [wk EXCEPT ![w].pc = "retrieve", ![w].vector = Embed(text)]
               /\ embedding_cache' =
                      EmbeddingCacheInsert(embedding_cache, text_hash, Embed(text))
    /\ UNCHANGED <<limit, ticks, peak, now, points, events, analytics_present, match_cache,
                   trace_store, heap, next_rid, calls, admin_ops, hist, probe>>

\* match_service.py:79-93
RetrieveStep(w) ==
    /\ wk[w].pc = "retrieve"
    /\ LET req == wk[w].req
           vector_filter == BuildFilter(req.constraints,
                                        PlacementContext(req.placement, req.surface))
           raw_hits == Query(points, wk[w].vector, vector_filter, req.top_k)
       IN wk' = [wk EXCEPT ![w].pc = "reason",
                           ![w].query_filter = QueryFilter(vector_filter),
                           ![w].raw_hits = raw_hits,
                           ![w].eligible = PolicyApply(raw_hits, req.constraints,
                                                       req.context_text, now)]
    /\ UNCHANGED <<limit, ticks, peak, now, points, events, analytics_present, embedding_cache,
                   match_cache, trace_store, heap, next_rid, calls, admin_ops,
                   hist, probe>>

\* constraint_rejections[constraint] = 1 in place of get(constraint, 0) + 1
RECURSIVE TallyRejectionsOnce(_, _)
TallyRejectionsOnce(decisions, tally) ==
    IF decisions = <<>> THEN tally
    ELSE TallyRejectionsOnce(Tail(decisions),
            IF IsDenied(Head(decisions).reason)
            THEN [tally EXCEPT ![ConstraintOf(Head(decisions).reason)] = 1]
            ELSE tally)

\* match_service.py:119-123
RECURSIVE TallyRejections(_, _)
TallyRejections(decisions, tally) ==
    IF decisions = <<>> THEN tally
    ELSE TallyRejections(Tail(decisions),
            IF IsDenied(Head(decisions).reason)
            THEN [tally EXCEPT ![ConstraintOf(Head(decisions).reason)] = @ + 1]
            ELSE tally)

\* match_service.py:102-123
ReasonStep(w) ==
    /\ wk[w].pc = "reason"
    /\ LET req == wk[w].req
           decisions == [i \in 1..Len(wk[w].raw_hits) |->
                            Decision(wk[w].raw_hits[i],
                                     PolicyReason(wk[w].raw_hits[i].payload,
                                                  req.constraints,
                                                  req.context_text, now))]
       IN wk' = [wk EXCEPT ![w].pc = "pace", ![w].idx = 1,
                           ![w].decisions = decisions,
                           ![w].rejections = TallyRejections(decisions, NoRejections)]
    /\ UNCHANGED <<limit, ticks, peak, now, points, events, analytics_present, embedding_cache,
                   match_cache, trace_store, heap, next_rid, calls, admin_ops,
                   hist, probe>>

\* match_service.py:160-165: the first decision of this creative is patched
PatchDecision(decisions, candidate) ==
    LET hitsAt == {i \in 1..Len(decisions) :
                      decisions[i].creative_id = candidate.creative_id}
    IN IF hitsAt = {} THEN decisions
       ELSE LET first == CHOOSE i \in hitsAt : \A j \in hitsAt : i <= j
            IN [decisions EXCEPT ![first].match_id = candidate.match_id,
                                 ![first].pacing_weight = candidate.pacing_weight,
                                 ![first].boost_applied = candidate.boost_applied]

\* match_service.py:132-165
EvaluateStep(w) ==
    /\ wk[w].pc = "pace"
    /\ wk[w].idx <= Len(wk[w].eligible)
    /\ LET hit == wk[w].eligible[wk[w].idx]
           pacing == PacingEvaluate(hit.payload, analytics_present, events, now)
           logged == Append(wk[w].pace_log,
                            [creative_id |-> hit.creative_id, decision |-> pacing,
                             ev_len |-> Len(events), now |-> now])
       IN IF ~pacing.allow
          THEN wk' = [wk EXCEPT
                        ![w].decisions = Append(@, Decision(hit, PacingTag(pacing.reason))),
                        ![w].rejections = [@ EXCEPT !["pacing"] = @ + 1],
                        ![w].idx = @ + 1,
                        ![w].pace_log = logged]
          ELSE LET boost_factor == BoostFactor(BoostLookup(wk[w].req.boost_keywords),
                                               hit.payload)
                   candidate == HitToCandidate(hit, wk[w].rid, pacing.weight,
                                               pacing.reason, boost_factor)
               IN wk' = [wk EXCEPT
                           ![w].candidates = Append(@, candidate),
                           ![w].decisions = PatchDecision(@, candidate),
                           ![w].pace_log = logged,
                           ![w].pc = IF analytics_present THEN "record" ELSE "pace",
                           ![w].idx = IF analytics_present THEN @ ELSE @ + 1]
    /\ UNCHANGED <<limit, ticks, peak, now, points, events, analytics_present, embedding_cache,
                   match_cache, trace_store, heap, next_rid, calls, admin_ops,
                   hist, probe>>

\* match_service.py:167-182
RecordStep(w) ==
    /\ wk[w].pc = "record"
    /\ LET hit == wk[w].eligible[wk[w].idx]
           candidate == wk[w].candidates[Len(wk[w].candidates)]
       IN events' = RecordMatch(events, now, wk[w].rid, hit.campaign_id,
                                hit.creative_id, candidate.score,
                                candidate.pacing_weight,
                                CostPerImpression(hit.payload))
    /\ wk' = [wk EXCEPT ![w].pc = "pace", ![w].idx = @ + 1]
    /\ UNCHANGED <<limit, ticks, peak, now, points, analytics_present, embedding_cache, match_cache,
                   trace_store, heap, next_rid, calls, admin_ops, hist, probe>>

PacedCount(decisions) ==
    Cardinality({i \in 1..Len(decisions) : IsPacingTag(decisions[i].reason)})

\* match_service.py:128-130 and 184-187
Warnings(text, eligible, decisions) ==
    (IF Len(text) < ShortContextLen THEN <<"context_text too short">> ELSE <<>>)
    \o (IF Len(eligible) > 0 /\ PacedCount(decisions) = Len(eligible)
        THEN <<"all eligible creatives are budget-paced">> ELSE <<>>)

\* the candidates ordered by final score, best first
RECURSIVE SortByScore(_)
SortByScore(candidates) ==
    IF candidates = <<>> THEN <<>>
    ELSE LET best == CHOOSE i \in 1..Len(candidates) :
                        /\ \A j \in 1..Len(candidates) :
                              candidates[i].score >= candidates[j].score
                        /\ \A j \in 1..(i - 1) :
                              candidates[j].score < candidates[i].score
         IN <<candidates[best]>>
            \o SortByScore([k \in 1..(Len(candidates) - 1) |->
                               IF k < best THEN candidates[k] ELSE candidates[k + 1]])

\* the response with its candidates re-sorted by final score
MatchResponseSorted(task) ==
    [candidates |-> SortByScore(task.candidates),
     request_id |-> task.rid,
     placement |-> task.req.placement,
     warnings |-> Warnings(NormalizeText(task.req.context_text), task.eligible,
                           task.decisions),
     constraint_impact |-> task.rejections]

\* match_service.py:189-195; constraint_impact None is the all-zero tally
MatchResponse(task) ==
    [candidates |-> task.candidates,
     request_id |-> task.rid,
     placement |-> task.req.placement,
     warnings |-> Warnings(NormalizeText(task.req.context_text), task.eligible,
                           task.decisions),
     constraint_impact |-> task.rejections]

\* match_service.py:196-203
AuditTrace(task) ==
    [request_id |-> task.rid,
     placement |-> task.req.placement,
     context_text |-> task.req.context_text,
     constraints |-> task.req.constraints,
     boost_keywords |-> task.req.boost_keywords,
     decisions |-> task.decisions,
     source |-> "", method |-> ""]

\* what a caller is handed, with the stage results that produced it
Returned(task, response, trace, cache_hit) ==
    [tool |-> task.tool, req |-> task.req, response |-> response,
     trace |-> trace, cache_hit |-> cache_hit,
     query_filter |-> task.query_filter,
     raw_hits |-> task.raw_hits, eligible |-> task.eligible,
     pace_log |-> task.pace_log,
     ev_start |-> task.ev_start, ev_end |-> Len(events),
     now_start |-> task.now_start, now_end |-> now,
     ver_start |-> task.ver_start, ver_end |-> admin_ops]

\* match_service.py:184-213, then the caller's tail:
\*   campaigns_match            tools.py:240-244  (stores the trace)
\*   campaigns_match_template   tools.py:537-541
\*   match_cached               match_service.py:418-428
\*   match_batch                match_service.py:345-347 (a batch of one request)
\*   match_dry_run              match_service.py:323-326, tools.py:465-467
FinishStep(w) ==
    /\ wk[w].pc = "pace"
    /\ wk[w].idx > Len(wk[w].eligible)
    /\ LET task == wk[w]
           response == MatchResponse(task)
           trace == AuditTrace(task)
       IN /\ heap' = [heap EXCEPT ![task.rid] =
                        CASE task.tool = "match_cached" -> [trace EXCEPT !.source = "fresh"]
                          [] task.tool = "match_batch" -> [batch_index |-> 0] @@ trace
                          [] task.tool = "match_dry_run" ->
                                [constraint_overrides |-> task.overrides]
                                @@ [trace EXCEPT !.method = "match_dry_run"]
                          [] OTHER -> trace]
          /\ trace_store' =
                IF task.tool = "match"
                THEN StoreTraceForExplain(trace_store, response.candidates, task.rid)
                ELSE trace_store
          /\ match_cache' =
                IF task.tool = "match_cached"
                THEN MatchCacheInsert(match_cache, ComputeCacheKey(task.req),
                                      [response |-> response, trace |-> task.rid])
                ELSE match_cache
          /\ hist' = Append(hist, Returned(task, response, task.rid, FALSE))
    /\ wk' = [wk EXCEPT ![w] = IdleTask]
    /\ UNCHANGED <<limit, ticks, peak, now, points, events, analytics_present, embedding_cache,
                   next_rid, calls, admin_ops, probe>>

\* tools.py:221-238  building the MatchRequest raises pydantic's
\* ValidationError: MatchService.match is never entered
RejectRequest(req) ==
    /\ \A w \in Workers : wk[w].pc = "idle"
    /\ calls < limit.calls
    /\ ~ValidMatchRequest(req)
    /\ calls' = calls + 1
    /\ probe' = [kind |-> "invalid_input", req |-> req]
    /\ UNCHANGED <<limit, ticks, peak, now, points, events, analytics_present,
                   embedding_cache, match_cache, trace_store, heap, next_rid,
                   admin_ops, wk, hist>>

\* the request_id 'error' of match_batch's error response; no request has it
ErrorRequestId == 0

\* match_service.py:354-359
ErrorResponse(req) ==
    [candidates |-> <<>>, request_id |-> ErrorRequestId, placement |-> req.placement,
     warnings |-> <<"Error">>, constraint_impact |-> NoRejections]

\* the stage a request is in calls a collaborator that can raise: the
\* embedding provider (on an embedding-cache miss), the index, an analytics
\* read of the pacing engine, an analytics write
CallsCollaborator(task) ==
    CASE task.pc = "embed" ->
            ~DictHas(embedding_cache, NormalizeText(task.req.context_text))
      [] task.pc = "retrieve" -> TRUE
      [] task.pc = "pace" ->
            /\ task.idx <= Len(task.eligible)
            /\ analytics_present
            /\ task.eligible[task.idx].campaign_id # ""
      [] task.pc = "record" -> TRUE
      [] OTHER -> FALSE

\* the collaborator raises.  match has no handler (match_service.py:62-213)
\* and neither have the tools around it, so the exception reaches the
\* caller; match_batch catches it and yields an error response and trace
\* (match_service.py:344-363).  Events recorded before the failure stay.
FailStep(w) ==
    /\ CallsCollaborator(wk[w])
    /\ LET task == wk[w]
           caught == task.tool = "match_batch"
       IN probe' = [kind |-> "failure", stage |-> task.pc, tool |-> task.tool,
                    rid |-> task.rid, raised |-> ~caught,
                    response |-> IF caught THEN <<ErrorResponse(task.req)>> ELSE <<>>,
                    trace |-> IF caught
                              THEN <<[batch_index |-> 0, error |-> "Error"]>> ELSE <<>>,
                    admitted |-> Len(task.candidates)]
    /\ wk' = [wk EXCEPT ![w] = IdleTask]
    /\ UNCHANGED <<limit, ticks, peak, now, points, events, analytics_present,
                   embedding_cache, match_cache, trace_store, heap, next_rid,
                   calls, admin_ops, hist>>

\* a hit that records the impressions of the cached candidates again
CachedHitReplay(w, req) ==
    /\ wk[w].pc = "idle"
    /\ calls < limit.calls
    /\ DictHas(match_cache, ComputeCacheKey(req))
    /\ LET entry == DictGet(match_cache, ComputeCacheKey(req))
           task == [IdleTask EXCEPT !.tool = "match_cached", !.req = req,
                                    !.ev_start = Len(events), !.now_start = now,
                                    !.ver_start = admin_ops]
           first == entry.response.candidates[1]
       IN /\ heap' = [heap EXCEPT ![entry.trace].source = "cache"]
          /\ hist' = Append(hist, Returned(task, entry.response, entry.trace, TRUE))
          /\ events' = IF entry.response.candidates = <<>> \/ ~analytics_present
                       THEN events
                       ELSE RecordMatch(events, now, entry.response.request_id,
                                        first.campaign_id, first.creative_id,
                                        first.score, first.pacing_weight,
                                        CostPerImpression(points[first.creative_id]))
    /\ calls' = calls + 1
    /\ probe' = NoProbe
    /\ UNCHANGED <<limit, ticks, peak, now, points, analytics_present, embedding_cache,
                   match_cache, trace_store, next_rid, admin_ops, wk>>

\* match_service.py:409-415
CachedHit(w, req) ==
    /\ wk[w].pc = "idle"
    /\ calls < limit.calls
    /\ DictHas(match_cache, ComputeCacheKey(req))
    /\ LET entry == DictGet(match_cache, ComputeCacheKey(req))
           task == [IdleTask EXCEPT !.tool = "match_cached", !.req = req,
                                    !.ev_start = Len(events), !.now_start = now,
                                    !.ver_start = admin_ops]
       IN /\ heap' = [heap EXCEPT ![entry.trace].source = "cache"]
          /\ hist' = Append(hist, Returned(task, entry.response, entry.trace, TRUE))
    /\ calls' = calls + 1
    /\ probe' = NoProbe
    /\ UNCHANGED <<limit, ticks, peak, now, points, events, analytics_present, embedding_cache,
                   match_cache, trace_store, next_rid, admin_ops, wk>>

\* interface/mcp/tools.py:264-291  the counts of the analysis summary
ExplainAnalysis(decisions) ==
    LET Count(Test(_)) ==
            Cardinality({i \in 1..Len(decisions) : Test(decisions[i].reason)})
        Allowed(reason) == reason = "allowed"
    IN [total_candidates |-> Len(decisions),
        accepted |-> Count(Allowed),
        rejected_by_policy |-> Count(IsDenied),
        rejected_by_pacing |-> Count(IsPacingTag)]

\* interface/mcp/tools.py:247-291
ExplainLookup(store, traces, match_id) ==
    IF DictHas(store, match_id)
    THEN [found |-> TRUE, request_id |-> traces[DictGet(store, match_id)].request_id,
          analysis |-> ExplainAnalysis(traces[DictGet(store, match_id)].decisions)]
    ELSE [found |-> FALSE, request_id |-> 0, analysis |-> ExplainAnalysis(<<>>)]

LastMatchIds ==
    IF hist = <<>> THEN {}
    ELSE {hist[Len(hist)].response.candidates[i].match_id :
             i \in 1..Len(hist[Len(hist)].response.candidates)}

UnknownMatchId == <<0, "c1">>

\* campaigns_explain called with an id of the response just handed back,
\* or with an id that was never issued
Explain(match_id) ==
    /\ \A w \in Workers : wk[w].pc = "idle"
    /\ probe = NoProbe
    /\ match_id \in LastMatchIds \cup {UnknownMatchId}
    /\ probe' = [kind |-> "explain", match_id |-> match_id,
                 result |-> ExplainLookup(trace_store, heap, match_id)]
    /\ UNCHANGED <<limit, ticks, peak, now, points, events, analytics_present, embedding_cache,
                   match_cache, trace_store, heap, next_rid, calls, admin_ops,
                   wk, hist>>

(***************************************************************************)
(* The clock and the index's administrative operations                     *)
(***************************************************************************)
Tick ==
    /\ ticks < limit.ticks
    /\ now' = now + 1
    /\ ticks' = ticks + 1
    /\ UNCHANGED <<limit, peak, points, events, analytics_present, embedding_cache, match_cache,
                   trace_store, heap, next_rid, calls, admin_ops, wk, hist, probe>>

\* qdrant_vector_store.py:187-201 with domain/sponsorship.py:138
\* (the ingested creative writes its enabled flag as a boolean)
UpsertCreative(c, enabled) ==
    /\ admin_ops < limit.admin
    /\ admin_ops' = admin_ops + 1
    /\ points' = [points EXCEPT ![c] =
                    [Catalog[c] EXCEPT !.enabled = IF enabled THEN "true" ELSE "false"]]
    /\ UNCHANGED <<limit, ticks, peak, now, events, analytics_present, embedding_cache, match_cache,
                   trace_store, heap, next_rid, calls, wk, hist, probe>>

\* qdrant_vector_store.py:219-250 and 264-274; filter_spec is one key/value
BulkDisable(key, value) ==
    /\ admin_ops < limit.admin
    /\ admin_ops' = admin_ops + 1
    /\ points' = [c \in DOMAIN points |->
                    IF ConditionMatches(FieldCondition(key, {value}), points[c])
                    THEN [points[c] EXCEPT !.enabled = "false"]
                    ELSE points[c]]
    /\ UNCHANGED <<limit, ticks, peak, now, events, analytics_present, embedding_cache, match_cache,
                   trace_store, heap, next_rid, calls, wk, hist, probe>>

(***************************************************************************)
(* MatchService._get_cached_embedding statement by statement.  The cache   *)
(* is a module-level dict that no lock guards, so the statements of two    *)
(* requests running at the same time interleave.                           *)
(***************************************************************************)
\* d.pop(k) for a key the dict holds
DictRemove(d, k) ==
    LET Other(e) == e.key # k IN SelectSeq(d, Other)

\* an exception raised at a statement on a shared store ends the request
StoreError(task, error) ==
    [kind |-> "store_error", stage |-> task.pc, error |-> error, rid |-> task.rid]

\* what the statements of _get_cached_embedding leave alone
EmbeddingFrame ==
    UNCHANGED <<limit, ticks, peak, now, points, events, analytics_present,
                match_cache, trace_store, heap, next_rid, calls, admin_ops, hist>>

\* match_service.py:453  if text_hash in _EMBEDDING_CACHE
EmbedCheck(w) ==
    /\ wk[w].pc = "embed"
    /\ wk' = [wk EXCEPT ![w].pc =
                IF DictHas(embedding_cache, NormalizeText(wk[w].req.context_text))
                THEN "embed_read" ELSE "embed_compute"]
    /\ UNCHANGED <<embedding_cache, probe>>
    /\ EmbeddingFrame

\* match_service.py:454  return _EMBEDDING_CACHE[text_hash]; KeyError when
\* the entry was evicted since the test
EmbedRead(w) ==
    /\ wk[w].pc = "embed_read"
    /\ LET text_hash == NormalizeText(wk[w].req.context_text)
       IN IF DictHas(embedding_cache, text_hash)
          THEN /\ wk' = [wk EXCEPT ![w].pc = "retrieve",
                                   ![w].vector = DictGet(embedding_cache, text_hash)]
               /\ UNCHANGED probe
          ELSE /\ wk' = [wk EXCEPT ![w] = IdleTask]
               /\ probe' = StoreError(wk[w], "KeyError")
    /\ UNCHANGED embedding_cache
    /\ EmbeddingFrame

\* match_service.py:457
EmbedCompute(w) ==
    /\ wk[w].pc = "embed_compute"
    /\ wk' = [wk EXCEPT ![w].pc = "embed_full",
                        ![w].vector = Embed(NormalizeText(wk[w].req.context_text))]
    /\ UNCHANGED <<embedding_cache, probe>>
    /\ EmbeddingFrame

\* match_service.py:460  if len(_EMBEDDING_CACHE) >= _EMBEDDING_CACHE_MAX_SIZE
EmbedFull(w) ==
    /\ wk[w].pc = "embed_full"
    /\ wk' = [wk EXCEPT ![w].pc =
                IF Len(embedding_cache) >= EMBEDDING_CACHE_MAX_SIZE
                THEN "embed_oldest" ELSE "embed_set"]
    /\ UNCHANGED <<embedding_cache, probe>>
    /\ EmbeddingFrame

\* match_service.py:462  next(iter(_EMBEDDING_CACHE)); StopIteration on an
\* empty dict
EmbedOldest(w) ==
    /\ wk[w].pc = "embed_oldest"
    /\ IF embedding_cache = <<>>
       THEN /\ wk' = [wk EXCEPT ![w] = IdleTask]
            /\ probe' = StoreError(wk[w], "StopIteration")
       ELSE /\ wk' = [wk EXCEPT ![w].pc = "embed_pop",
                                ![w].oldest = <<embedding_cache[1].key>>]
            /\ UNCHANGED probe
    /\ UNCHANGED embedding_cache
    /\ EmbeddingFrame

\* match_service.py:462  _EMBEDDING_CACHE.pop(key); KeyError when the key
\* is gone
EmbedPop(w) ==
    /\ wk[w].pc = "embed_pop"
    /\ IF DictHas(embedding_cache, wk[w].oldest[1])
       THEN /\ embedding_cache' = DictRemove(embedding_cache, wk[w].oldest[1])
            /\ wk' = [wk EXCEPT ![w].pc = "embed_set", ![w].oldest = <<>>]
            /\ UNCHANGED probe
       ELSE /\ wk' = [wk EXCEPT ![w] = IdleTask]
            /\ probe' = StoreError(wk[w], "KeyError")
            /\ UNCHANGED embedding_cache
    /\ EmbeddingFrame

\* match_service.py:464-466
EmbedSet(w) ==
    /\ wk[w].pc = "embed_set"
    /\ embedding_cache' = DictSet(embedding_cache,
                                  NormalizeText(wk[w].req.context_text), wk[w].vector)
    /\ wk' = [wk EXCEPT ![w].pc = "retrieve"]
    /\ UNCHANGED probe
    /\ EmbeddingFrame


(***************************************************************************)
(* Specifications                                                          *)
(***************************************************************************)
Requests == {ReqA, ReqB, ReqC}

\* contexts that differ in inner whitespace only, and one that depends on
\* the schedule
IdemRequests == {ReqB, ReqBWide, ReqC}

CachedRequests == {ReqB, ReqBWide}

CapRequests == {ReqB, ReqBWide, ReqC}

TemplateRequests == {TemplateSearchResults(CtxGa)}

Pipeline(w) ==
    \/ EmbedStep(w)
    \/ RetrieveStep(w)
    \/ ReasonStep(w)
    \/ EvaluateStep(w)
    \/ RecordStep(w)
    \/ FinishStep(w)

\* one request at a time
Next ==
    \/ \E req \in Requests : StartMatch(1, "match", req)
    \/ \E req \in TemplateRequests : StartMatch(1, "template", req)
    \/ Pipeline(1)
    \/ \E m \in LastMatchIds \cup {UnknownMatchId} : Explain(m)
    \/ Tick

Spec == Init /\ [][Next]_vars

\* repeated requests, through match and through match_cached
NextIdem ==
    \/ \E req \in IdemRequests : StartMatch(1, "match", req)
    \/ \E req \in CachedRequests : StartMatch(1, "match_cached", req)
    \/ \E req \in CachedRequests : CachedHit(1, req)
    \/ Pipeline(1)
    \/ Tick

SpecIdem == Init /\ [][NextIdem]_vars


\* concurrent requests for one campaign
MaxConcCalls == 2

InitConc ==
    /\ InitCommon
    /\ limit = [calls |-> MaxConcCalls, ticks |-> MaxTicks, admin |-> 0]
    /\ now = 1
    /\ analytics_present = TRUE
    /\ probe = NoProbe

NextConc ==
    \/ \E w \in Workers :
          \/ StartMatch(w, "match", ReqA)
          \/ Pipeline(w)
    \/ Tick

SpecConc == InitConc /\ [][NextConc]_vars

\* matches interleaved with index administration
MaxIndexCalls == 2

InitIndex ==
    /\ InitCommon
    /\ limit = [calls |-> MaxIndexCalls, ticks |-> 0, admin |-> MaxAdminOps]
    /\ now = 0
    /\ analytics_present = TRUE
    /\ probe = NoProbe

NextIndex ==
    \/ \E req \in {ReqA, ReqC} : StartMatch(1, "match", req)
    \/ Pipeline(1)
    \/ \E c \in {"c1", "c2"}, e \in BOOLEAN : UpsertCreative(c, e)
    \/ \E v \in {"A", "C"} : BulkDisable("campaign_id", v)

SpecIndex == InitIndex /\ [][NextIndex]_vars

\* enough calls to fill the audit store and both caches
MaxCapCalls == 5

InitCaps ==
    /\ InitCommon
    /\ limit = [calls |-> MaxCapCalls, ticks |-> 0, admin |-> 0]
    /\ now = 0
    /\ analytics_present \in BOOLEAN
    /\ probe = NoProbe

NextCaps ==
    \/ StartMatch(1, "match", ReqA)
    \/ \E req \in CapRequests : StartMatch(1, "match_cached", req)
    \/ \E req \in CapRequests : CachedHit(1, req)
    \/ Pipeline(1)

SpecCaps == InitCaps /\ [][NextCaps]_vars

\* PolicyEngine.reason on its own, over payloads, constraints, contexts and
\* clock readings
PolicyPayloads ==
    {[BasePayload EXCEPT !.creative_id = "p", !.enabled = en, !.age_restricted = ar,
                         !.sensitive = se, !.blocked_keywords = bk,
                         !.start_at = st, !.end_at = ed] :
        en \in FlagValues, ar \in FlagValues, se \in FlagValues,
        bk \in {<<>>, <<<<"B">>>>}, st \in {NoValue, 1}, ed \in {NoValue, 0}}

PolicyConstraints ==
    {[MatchConstraints EXCEPT !.age_restricted_ok = a, !.sensitive_ok = b] :
        a \in BOOLEAN, b \in BOOLEAN}

InitPolicy ==
    /\ InitCommon
    /\ limit = [calls |-> 0, ticks |-> 0, admin |-> 0]
    /\ now \in 0..1
    /\ analytics_present = FALSE
    /\ probe \in [kind : {"policy"}, done : {FALSE}, payload : PolicyPayloads,
                  constraints : PolicyConstraints, context_text : {CtxGa, CtxGaB},
                  reason : {""}]

\* policy_engine.py:58-78  one call of PolicyEngine.reason
ReasonCall ==
    /\ probe.kind = "policy"
    /\ ~probe.done
    /\ probe' = [probe EXCEPT !.done = TRUE,
                              !.reason = PolicyReason(probe.payload, probe.constraints,
                                                      probe.context_text, now)]
    /\ UNCHANGED <<limit, ticks, peak, now, points, events, analytics_present,
                   embedding_cache, match_cache, trace_store, heap, next_rid,
                   calls, admin_ops, wk, hist>>

NextPolicy == ReasonCall

SpecPolicy == InitPolicy /\ [][NextPolicy]_vars

\* requests whose hits are boosted, filtered and stored, the same request
\* possibly twice
MaxOrderCalls == 2

OrderRequests == {ReqA, ReqB, ReqD}

InitOrder ==
    /\ InitCommon
    /\ limit = [calls |-> MaxOrderCalls, ticks |-> MaxTicks, admin |-> 0]
    /\ now = 0
    /\ analytics_present \in BOOLEAN
    /\ probe = NoProbe

NextOrder ==
    \/ \E req \in OrderRequests : StartMatch(1, "match", req)
    \/ Pipeline(1)
    \/ Tick

SpecOrder == InitOrder /\ [][NextOrder]_vars

\* requests during which a collaborator may raise, through match and
\* through match_batch
MaxFailCalls == 2

FailRequests == {ReqA, ReqB}

InitFail ==
    /\ InitCommon
    /\ limit = [calls |-> MaxFailCalls, ticks |-> 0, admin |-> 0]
    /\ now = 0
    /\ analytics_present \in BOOLEAN
    /\ probe = NoProbe

NextFail ==
    \/ \E req \in FailRequests : StartMatch(1, "match", req)
    \/ \E req \in FailRequests : StartMatch(1, "match_batch", req)
    \/ Pipeline(1)
    \/ FailStep(1)

SpecFail == InitFail /\ [][NextFail]_vars

\* requests with a blank, an empty and an ordinary context
MaxInputCalls == 2

InputRequests == {ReqBlank, ReqEmpty, ReqA, ReqB}

InitInput ==
    /\ InitCommon
    /\ limit = [calls |-> MaxInputCalls, ticks |-> 0, admin |-> 0]
    /\ now = 0
    /\ analytics_present \in BOOLEAN
    /\ probe = NoProbe

NextInput ==
    \/ \E req \in InputRequests : StartMatch(1, "match", req)
    \/ \E req \in InputRequests : RejectRequest(req)
    \/ Pipeline(1)

SpecInput == InitInput /\ [][NextInput]_vars

\* PolicyEngine.apply on its own, over stored payloads of any shape
EndpointValues ==
    {StoredValue("missing", NoValue), StoredValue("none", NoValue),
     StoredValue("empty", NoValue), StoredValue("text", NoValue),
     StoredValue("iso", 1), StoredValue("number", 1)}

Keyword(text) == [shape |-> "text", text |-> text]

NumberKeyword == [shape |-> "number", text |-> <<>>]

BlockedValues ==
    {[shape |-> "missing", items |-> <<>>], [shape |-> "none", items |-> <<>>],
     [shape |-> "number", items |-> <<>>]}
    \cup {[shape |-> "list", items |-> items] :
             items \in {<<>>, <<Keyword(<<"B">>)>>, <<NumberKeyword>>,
                        <<Keyword(<<"x">>), NumberKeyword>>,
                        <<Keyword(<<"B">>), NumberKeyword>>}}

StoredPayloads ==
    [creative_id : {"p"}, enabled : FlagValues,
     age_restricted : {"missing", "null", "true"}, sensitive : {"missing", "true"},
     blocked_keywords : BlockedValues, start_at : EndpointValues,
     end_at : EndpointValues]

InitShape ==
    /\ InitCommon
    /\ limit = [calls |-> 0, ticks |-> 0, admin |-> 0]
    /\ now = 0
    /\ analytics_present = FALSE
    /\ probe \in [kind : {"shape"}, done : {FALSE}, payload : StoredPayloads,
                  constraints : PolicyConstraints, context_text : {CtxGaB},
                  result : {[raised |-> FALSE, eligible |-> <<>>]}]

\* policy_engine.py:44-56  one call of PolicyEngine.apply with one hit
ApplyCall ==
    /\ probe.kind = "shape"
    /\ ~probe.done
    /\ probe' = [probe EXCEPT !.done = TRUE,
                              !.result = ApplyOutcome(<<probe.payload>>,
                                                      probe.constraints,
                                                      probe.context_text, now)]
    /\ UNCHANGED <<limit, ticks, peak, now, points, events, analytics_present,
                   embedding_cache, match_cache, trace_store, heap, next_rid,
                   calls, admin_ops, wk, hist>>

NextShape == ApplyCall

SpecShape == InitShape /\ [][NextShape]_vars

\* the boost of one creative on its own, over boost maps and payloads
MaxBoostEntries == 2

\* keywords that differ by letter case only, one matching no payload
BoostKeys == {<<"b">>, <<"B">>, <<"g", "A">>, <<"x">>}

\* factors below 0.1, below 1.0, between 1.0 and 2.0, above 2.0 (tenths)
BoostFactors == {0, 5, 15, 25}

\* a dict[str, float] in insertion order: its keys are pairwise different
BoostMaps ==
    {m \in UNION {[1..n -> BoostKeys \X BoostFactors] : n \in 0..MaxBoostEntries} :
        \A i, j \in 1..Len(m) : m[i][1] = m[j][1] => i = j}

\* title match, substring of a longer title, exact topic, topic that only
\* contains the keyword, body match, and no text at all
BoostPayloads ==
    {Catalog["c1"], Catalog["c2"], Catalog["c4"],
     [BasePayload EXCEPT !.creative_id = "p", !.title = <<"a", "B", "c">>],
     [BasePayload EXCEPT !.creative_id = "p", !.topics = <<<<"a", "b">>>>],
     [BasePayload EXCEPT !.creative_id = "p", !.body = <<"g", "a">>,
                         !.topics = <<<<"B">>>>]}

InitBoost ==
    /\ InitCommon
    /\ limit = [calls |-> 0, ticks |-> 0, admin |-> 0]
    /\ now = 0
    /\ analytics_present = FALSE
    /\ probe \in [kind : {"boost"}, done : {FALSE}, boost_keywords : BoostMaps,
                  payload : BoostPayloads, boost_applied : {NoValue}]

\* match_service.py:95-100 and 146-158 for one hit
BoostCall ==
    /\ probe.kind = "boost"
    /\ ~probe.done
    /\ LET hit == VectorHit(probe.payload, 5)
           boost_factor == BoostFactor(BoostLookup(probe.boost_keywords), hit.payload)
           candidate == HitToCandidate(hit, 0, WeightOne, "ok", boost_factor)
       IN probe' = [probe EXCEPT !.done = TRUE,
                                 !.boost_applied = candidate.boost_applied]
    /\ UNCHANGED <<limit, ticks, peak, now, points, events, analytics_present,
                   embedding_cache, match_cache, trace_store, heap, next_rid,
                   calls, admin_ops, wk, hist>>

NextBoost == BoostCall

SpecBoost == InitBoost /\ [][NextBoost]_vars

\* TargetingEngine.build_filter on its own, over constraints and placements
FilterConstraints ==
    [topics : {<<>>, <<"t1", "t2">>}, locale : {"", "en-US"},
     verticals : {<<>>, <<"v">>}, audience_segments : {<<>>, <<"s">>},
     keywords : {<<>>, <<"k">>}, exclude_advertiser_ids : {<<>>, <<"adv2">>},
     exclude_campaign_ids : {<<>>, <<"A", "B">>},
     exclude_creative_ids : {<<>>, <<"c1">>},
     age_restricted_ok : BOOLEAN, sensitive_ok : BOOLEAN]

Placements == {PlacementContext("inline", "chat"), PlacementContext("sidebar", "feed")}

NoFilter == [must |-> <<>>, must_not |-> <<>>]

InitFilter ==
    /\ InitCommon
    /\ limit = [calls |-> 0, ticks |-> 0, admin |-> 0]
    /\ now = 0
    /\ analytics_present = FALSE
    /\ probe \in [kind : {"filter"}, done : {FALSE}, constraints : FilterConstraints,
                  placement : Placements, other_constraints : {MatchConstraints},
                  other_placement : Placements,
                  filter : {NoFilter}, other_filter : {NoFilter}]

\* targeting_engine.py:12-74 called for a request and for one that differs
\* from it in placement, surface, age_restricted_ok and sensitive_ok at most
BuildFilterCall(age_restricted_ok, sensitive_ok) ==
    /\ probe.kind = "filter"
    /\ ~probe.done
    /\ LET other == [probe.constraints EXCEPT !.age_restricted_ok = age_restricted_ok,
                                              !.sensitive_ok = sensitive_ok]
       IN probe' = [probe EXCEPT
                       !.done = TRUE,
                       !.other_constraints = other,
                       !.filter = BuildFilter(probe.constraints, probe.placement),
                       !.other_filter = BuildFilter(other, probe.other_placement)]
    /\ UNCHANGED <<limit, ticks, peak, now, points, events, analytics_present,
                   embedding_cache, match_cache, trace_store, heap, next_rid,
                   calls, admin_ops, wk, hist>>

NextFilter == \E a \in BOOLEAN, b \in BOOLEAN : BuildFilterCall(a, b)

SpecFilter == InitFilter /\ [][NextFilter]_vars

\* requests that run at the same time and share the embedding cache, whose
\* statements interleave; without an analytics store the record stage is
\* never entered
MaxRaceCalls == 4

RaceRequests == {ReqA, ReqB, ReqC}

InitRace ==
    /\ InitCommon
    /\ limit = [calls |-> MaxRaceCalls, ticks |-> 0, admin |-> 0]
    /\ now = 0
    /\ analytics_present = FALSE
    /\ probe = NoProbe

NextRace ==
    \E w \in Workers :
        \/ \E req \in RaceRequests : StartMatch(w, "match", req)
        \/ EmbedCheck(w)
        \/ EmbedRead(w)
        \/ EmbedCompute(w)
        \/ EmbedFull(w)
        \/ EmbedOldest(w)
        \/ EmbedPop(w)
        \/ EmbedSet(w)
        \/ RetrieveStep(w)
        \/ ReasonStep(w)
        \/ EvaluateStep(w)
        \/ FinishStep(w)

SpecRace == InitRace /\ [][NextRace]_vars

\* dry runs and matches, one after the other; the tool builds a dry run's
\* request with both flags off and the default top_k
MaxDryCalls == 2

DryRequests ==
    {MatchRequest(CtxGa, 5, "inline", "chat", MatchConstraints, <<>>),
     MatchRequest(CtxGaB, 5, "inline", "chat",
                  [MatchConstraints EXCEPT !.exclude_campaign_ids = <<"A">>], <<>>)}

\* tools.py:456-461
DryOverrides ==
    {{}, {<<"age_restricted_ok", TRUE>>},
     {<<"age_restricted_ok", TRUE>>, <<"sensitive_ok", TRUE>>}}

InitDry ==
    /\ InitCommon
    /\ limit = [calls |-> MaxDryCalls, ticks |-> 0, admin |-> 0]
    /\ now = 1
    /\ analytics_present \in BOOLEAN
    /\ probe = NoProbe

NextDry ==
    \/ \E req \in DryRequests, overrides \in DryOverrides : StartDryRun(1, req, overrides)
    \/ \E req \in DryRequests : StartMatch(1, "match", req)
    \/ Pipeline(1)

SpecDry == InitDry /\ [][NextDry]_vars

\* PolicyEngine.reason on its own, over blocked lists and contexts as the
\* caller sent them: keywords in upper case, an empty keyword, one holding
\* a blank, one that matches nothing
BlockedLists ==
    {<<>>, <<<<"B">>>>, <<<<"A">>>>, <<<<"x">>>>, <<<<>>>>, <<<<"a", " ", "b">>>>,
     <<<<"x">>, <<"B">>>>, <<<<"G", "A">>>>}

BlockedContexts ==
    {<<" ", "G", "a", " ", " ", "B">>, CtxGaB, <<"g", "a", "b">>, <<" ">>}

BlockedPayloads ==
    {[BasePayload EXCEPT !.creative_id = "p", !.enabled = en, !.age_restricted = ar,
                         !.sensitive = se, !.blocked_keywords = bk, !.start_at = st] :
        en \in {"true", "false"}, ar \in {"false", "true"}, se \in {"false", "true"},
        bk \in BlockedLists, st \in {NoValue, 1}}

InitBlocked ==
    /\ InitCommon
    /\ limit = [calls |-> 0, ticks |-> 0, admin |-> 0]
    /\ now = 0
    /\ analytics_present = FALSE
    /\ probe \in [kind : {"policy"}, done : {FALSE}, payload : BlockedPayloads,
                  constraints : PolicyConstraints, context_text : BlockedContexts,
                  reason : {""}]

NextBlocked == ReasonCall

SpecBlocked == InitBlocked /\ [][NextBlocked]_vars

\* BudgetPacingEngine.evaluate on its own, over payloads and analytics logs
MaxPacingEvents == 2

PacingPayloads ==
    {[BasePayload EXCEPT !.creative_id = "p", !.campaign_id = campaign_id,
                         !.total_budget = total_budget, !.daily_budget = daily_budget,
                         !.pacing_mode = pacing_mode, !.target_ctr = target_ctr] :
        campaign_id \in {"", "A"}, total_budget \in {NoValue, 20},
        daily_budget \in {NoValue, 0, 10, 30},
        pacing_mode \in {"even", "accelerated", "adaptive"},
        target_ctr \in {NoValue, ScoreOne \div 2}}

\* rows as record_match writes them: yesterday's and today's, with a low and
\* a high score, each costing one impression at the default cpm
PacingEvents ==
    {RecordMatch(<<>>, ts, 0, "A", "p", score, WeightOne, DefaultCpm)[1] :
        ts \in {DayLen - 1, DayLen, DayLen + 1}, score \in {0, ScoreOne}}

InitPacing ==
    /\ ticks = 0
    /\ peak = 0
    /\ points = InitialPoints
    /\ events \in UNION {[1..n -> PacingEvents] : n \in 0..MaxPacingEvents}
    /\ embedding_cache = <<>>
    /\ match_cache = <<>>
    /\ trace_store = <<>>
    /\ heap = <<>>
    /\ next_rid = 1
    /\ calls = 0
    /\ admin_ops = 0
    /\ wk = [w \in Workers |-> IdleTask]
    /\ hist = <<>>
    /\ limit = [calls |-> 0, ticks |-> 0, admin |-> 0]
    /\ now \in {DayLen, DayLen + 1}
    /\ analytics_present \in BOOLEAN
    /\ probe \in [kind : {"pacing"}, done : {FALSE}, payload : PacingPayloads,
                  decision : {PacingDecision(TRUE, WeightOne, "")}]

\* pacing/engine.py:26-68  one call of BudgetPacingEngine.evaluate
EvaluateCall ==
    /\ probe.kind = "pacing"
    /\ ~probe.done
    /\ probe' = [probe EXCEPT !.done = TRUE,
                              !.decision = PacingEvaluate(probe.payload,
                                               analytics_present, events, now)]
    /\ UNCHANGED <<limit, ticks, peak, now, points, events, analytics_present,
                   embedding_cache, match_cache, trace_store, heap, next_rid,
                   calls, admin_ops, wk, hist>>

NextPacing == EvaluateCall

SpecPacing == InitPacing /\ [][NextPacing]_vars

\* matches that leave a campaign's budget spent, each followed by explain
MaxExplainCalls == 2

ExplainRequests == {ReqA, ReqD}

InitExplain ==
    /\ InitCommon
    /\ limit = [calls |-> MaxExplainCalls, ticks |-> 0, admin |-> 0]
    /\ now = 0
    /\ analytics_present \in BOOLEAN
    /\ probe = NoProbe

NextExplain ==
    \/ \E req \in ExplainRequests : StartMatch(1, "match", req)
    \/ Pipeline(1)
    \/ \E m \in LastMatchIds \cup {UnknownMatchId} : Explain(m)

SpecExplain == InitExplain /\ [][NextExplain]_vars

(***************************************************************************)
(* Properties                                                              *)
(***************************************************************************)
\* calls that ran the pipeline (a cache hit hands back an earlier result)
Ran == {i \in 1..Len(hist) : ~hist[i].cache_hit}

CandidatesOf(h) == {h.response.candidates[k] : k \in 1..Len(h.response.candidates)}

\* the retrieval score of the hit a candidate was built from
RawScoreOf(h, candidate) ==
    LET i == CHOOSE j \in 1..Len(h.raw_hits) :
                 h.raw_hits[j].creative_id = candidate.creative_id
    IN h.raw_hits[i].score

ScoreProduct(h, candidate) ==
    RawScoreOf(h, candidate) * candidate.pacing_weight * candidate.boost_applied

\* C1: every candidate handed back carries the score
\* clamp([0, 1], raw_score * pacing_weight * boost_factor): the clamp is
\* taken after the product, so the score always lies between 0 and 1.
ScoreIsClampedProduct ==
    \A i \in Ran : \A candidate \in CandidatesOf(hist[i]) :
        LET product == ScoreProduct(hist[i], candidate)
        IN /\ candidate.score >= 0
           /\ candidate.score <= ScoreOne
           /\ product < 0 => candidate.score = 0
           /\ product > ScoreOne => candidate.score = ScoreOne
           /\ (product >= 0 /\ product <= ScoreOne) => candidate.score = product

\* a candidate whose raw score exceeds 1 and whose boost exceeds 1 was
\* clamped to 1, and another one kept its product
ScoreClampedWitness ==
    \E i \in Ran :
        /\ \E candidate \in CandidatesOf(hist[i]) :
              /\ RawScoreOf(hist[i], candidate) * WeightOne > ScoreOne \div BoostOne
              /\ candidate.boost_applied > BoostOne
              /\ candidate.score = ScoreOne
        /\ \E candidate \in CandidatesOf(hist[i]) :
              /\ candidate.score < ScoreOne
              /\ candidate.score = ScoreProduct(hist[i], candidate)

\* C2: after any match tool has handed back a response, explaining the
\* match_id of any of its candidates finds a trace, and that trace carries
\* the response's request_id.
ReturnedMatchIdsResolve ==
    (/\ probe.kind = "explain"
     /\ hist # <<>>
     /\ hist[Len(hist)].tool \in {"match", "template"}
     /\ probe.match_id \in LastMatchIds)
    => /\ probe.result.found
       /\ probe.result.request_id = hist[Len(hist)].response.request_id

PolicyDenials == {"denied: disabled", "denied: age_restricted", "denied: sensitive",
                  "denied: blocked_keywords", "denied: schedule_inactive"}

\* positions of the retrieved hits whose recorded policy reason is a denial
PolicyDenied(h) ==
    {i \in 1..Len(h.raw_hits) : heap[h.trace].decisions[i].reason \in PolicyDenials}

\* C3: a retrieved hit that the policy engine rejected is never handed to
\* the pacing engine: its decision stays without match_id, pacing weight and
\* boost, no pacing entry is recorded for it and no analytics event is
\* written for it.
NoPacingOnPolicyDenied ==
    \A n \in Ran :
        LET h == hist[n]
            decisions == heap[h.trace].decisions
        IN \A i \in PolicyDenied(h) :
              /\ \A k \in 1..Len(h.pace_log) :
                    h.pace_log[k].creative_id # h.raw_hits[i].creative_id
              /\ decisions[i].match_id = NoMatchId
              /\ decisions[i].pacing_weight = NoValue
              /\ decisions[i].boost_applied = NoValue
              /\ \A j \in (Len(h.raw_hits) + 1)..Len(decisions) :
                    decisions[j].creative_id # h.raw_hits[i].creative_id
              /\ \A e \in 1..Len(events) :
                    ~(/\ events[e].request_id = h.response.request_id
                      /\ events[e].creative_id = h.raw_hits[i].creative_id)

PacingDenied(h) == {k \in 1..Len(h.pace_log) : ~h.pace_log[k].decision.allow}

ImpactTotal(impact) ==
    impact["disabled"] + impact["age_restricted"] + impact["sensitive"]
    + impact["blocked_keywords"] + impact["schedule_inactive"] + impact["pacing"]

\* C4: in every response the counts of constraint_impact add up to the
\* number of retrieved hits denied by policy plus the number of eligible
\* hits denied by pacing, the latter being the count under 'pacing'.
ConstraintImpactConserved ==
    \A n \in Ran :
        LET h == hist[n]
        IN /\ ImpactTotal(h.response.constraint_impact)
                = Cardinality(PolicyDenied(h)) + Cardinality(PacingDenied(h))
           /\ h.response.constraint_impact["pacing"] = Cardinality(PacingDenied(h))

\* a response with a policy denial and a pacing denial
ConstraintImpactWitness ==
    \E n \in Ran :
        /\ PolicyDenied(hist[n]) # {}
        /\ PacingDenied(hist[n]) # {}
        /\ ImpactTotal(hist[n].response.constraint_impact) >= 2

\* the policy rules in the order of the specification, each with the
\* denial it produces
RuleDenial == <<"denied: disabled", "denied: age_restricted", "denied: sensitive",
                "denied: blocked_keywords", "denied: schedule_inactive">>

\* whether the probed payload violates the r-th rule
Violates(r) ==
    LET payload == probe.payload
    IN CASE r = 1 -> payload.enabled \in {"false", "null"}
         [] r = 2 -> payload.age_restricted = "true" /\ ~probe.constraints.age_restricted_ok
         [] r = 3 -> payload.sensitive = "true" /\ ~probe.constraints.sensitive_ok
         [] r = 4 -> BlockedKeywordsIntersect(payload, probe.context_text)
         [] r = 5 -> \/ payload.start_at # NoValue /\ now < payload.start_at
                     \/ payload.end_at # NoValue /\ now > payload.end_at

ViolatedRules == {r \in 1..Len(RuleDenial) : Violates(r)}

\* C5: the reason PolicyEngine.reason returns is the denial of the first
\* rule the payload violates in the order disabled, age_restricted,
\* sensitive, blocked_keywords, schedule_inactive, and 'allowed' exactly
\* when it violates none.
PolicyOrdering ==
    (probe.kind = "policy" /\ probe.done)
    => /\ ViolatedRules = {} => probe.reason = "allowed"
       /\ \A r \in ViolatedRules :
             (\A q \in ViolatedRules : r <= q) => probe.reason = RuleDenial[r]

\* a payload violating three later rules at once is denied for the earliest
PolicyOrderingWitness ==
    /\ probe.kind = "policy"
    /\ probe.done
    /\ ViolatedRules = {2, 3, 5}
    /\ probe.reason = "denied: age_restricted"

\* cost of the first n analytics events of a campaign stamped at or after since
RECURSIVE SpendUpTo(_, _, _)
SpendUpTo(n, campaign_id, since) ==
    IF n = 0 THEN 0
    ELSE SpendUpTo(n - 1, campaign_id, since)
         + (IF events[n].campaign_id = campaign_id /\ events[n].ts >= since
            THEN events[n].cost ELSE 0)

Midnight(t) == t - (t % DayLen)

\* the k-th pacing evaluation of a call found the campaign's total budget spent
TotalExhausted(h, k) ==
    LET payload == h.eligible[k].payload
    IN /\ payload.total_budget # NoValue
       /\ SpendUpTo(h.pace_log[k].ev_len, payload.campaign_id, 0) >= payload.total_budget

\* ... found today's spend (since UTC midnight of the evaluation) at the daily budget
DailyExhausted(h, k) ==
    LET payload == h.eligible[k].payload
    IN /\ payload.daily_budget # NoValue
       /\ SpendUpTo(h.pace_log[k].ev_len, payload.campaign_id,
                    Midnight(h.pace_log[k].now)) >= payload.daily_budget

\* pacing evaluations of a call that had a campaign and an analytics store
Paced(h) ==
    {k \in 1..Len(h.pace_log) : analytics_present /\ h.eligible[k].campaign_id # ""}

\* C6: with an analytics store attached, a creative whose campaign's total
\* spend has reached total_budget is denied as total_budget_exhausted;
\* otherwise one whose spend since UTC midnight has reached daily_budget is
\* denied as daily_budget_exhausted; a denial has weight 0.0 and the
\* creative is absent from the response.
BudgetExhaustion ==
    \A n \in Ran :
        LET h == hist[n]
        IN \A k \in Paced(h) :
              LET decision == h.pace_log[k].decision
              IN /\ TotalExhausted(h, k)
                    => decision = [allow |-> FALSE, weight |-> 0,
                                   reason |-> "total_budget_exhausted"]
                 /\ (~TotalExhausted(h, k) /\ DailyExhausted(h, k))
                    => decision = [allow |-> FALSE, weight |-> 0,
                                   reason |-> "daily_budget_exhausted"]
                 /\ ~decision.allow
                    => \A candidate \in CandidatesOf(h) :
                          candidate.creative_id # h.pace_log[k].creative_id

\* a campaign with both budgets spent is denied for its total budget, and
\* the creative is left out of the response
BudgetExhaustionWitness ==
    \E n \in Ran :
        \E k \in Paced(hist[n]) :
            /\ TotalExhausted(hist[n], k)
            /\ DailyExhausted(hist[n], k)
            /\ hist[n].pace_log[k].decision.reason = "total_budget_exhausted"
            /\ hist[n].response.candidates = <<>>

\* campaigns of the index that carry a total budget
BudgetedCampaigns ==
    {points[c].campaign_id : c \in {d \in DOMAIN points :
        points[d].campaign_id # "" /\ points[d].total_budget # NoValue}}

CreativesOf(campaign_id) == {c \in DOMAIN points : points[c].campaign_id = campaign_id}

TotalBudgetOf(campaign_id) ==
    points[CHOOSE c \in CreativesOf(campaign_id) : TRUE].total_budget

\* the largest imputed cost of one impression of the campaign
ImputedCost(campaign_id) ==
    LET cpm(c) == IF points[c].cpm \in {NoValue, 0} THEN DefaultCpm ELSE points[c].cpm
    IN CHOOSE x \in {cpm(c) : c \in CreativesOf(campaign_id)} :
          \A c \in CreativesOf(campaign_id) : cpm(c) <= x

RecordedSpend(campaign_id) == SpendUpTo(Len(events), campaign_id, 0)

\* C7: the recorded spend of a campaign stays below its total_budget plus
\* one imputed cost for each request that was in flight at the same time;
\* with requests run one at a time that is total_budget plus one imputed
\* cost.
BoundedOverspend ==
    \A campaign_id \in BudgetedCampaigns :
        RecordedSpend(campaign_id)
            < TotalBudgetOf(campaign_id) + Max2(1, peak) * ImputedCost(campaign_id)

\* two overlapping requests took the spend past what one request alone
\* can reach
BoundedOverspendWitness ==
    /\ peak = 2
    /\ \E campaign_id \in BudgetedCampaigns :
          RecordedSpend(campaign_id)
              >= TotalBudgetOf(campaign_id) + ImputedCost(campaign_id)

EnabledClause == [key |-> "enabled", any |-> {"false"}]

\* the filter the caller's constraints alone translate to
CallerFilter(req) ==
    TranslateFilter(BuildFilter(req.constraints,
                                PlacementContext(req.placement, req.surface)))

HitIds(hits) == {hits[i].creative_id : i \in 1..Len(hits)}

\* what the index query of task w sent and got back, against the index as
\* it stood when the query ran
EnabledFilterStep ==
    \A w \in Workers :
        (wk[w].pc = "retrieve" /\ wk'[w].pc = "reason")
        => LET sent == wk'[w].query_filter
               caller == CallerFilter(wk[w].req)
               hits == wk'[w].raw_hits
           IN /\ \E i \in 1..Len(sent.must_not) : sent.must_not[i] = EnabledClause
              /\ SeqToSet(caller.must) \subseteq SeqToSet(sent.must)
              /\ SeqToSet(caller.must_not) \subseteq SeqToSet(sent.must_not)
              /\ \A c \in HitIds(hits) : points[c].enabled # "false"
              /\ Len(hits) < wk[w].req.top_k
                 => \A c \in DOMAIN points :
                       (points[c].enabled = "missing" /\ FilterMatches(caller, points[c]))
                       => c \in HitIds(hits)

CandidatesAreHits ==
    \A n \in Ran :
        \A candidate \in CandidatesOf(hist[n]) :
            candidate.creative_id \in HitIds(hist[n].raw_hits)

\* C8: every index query carries the clause enabled != false on top of the
\* caller's filter, so across upserts, bulk-disables and matches a creative
\* whose stored flag is false when the query runs is neither a raw hit nor
\* a candidate, while a creative without the flag stays retrievable.
EnabledFilterAlwaysApplied == [][EnabledFilterStep]_vars /\ []CandidatesAreHits

\* with a creative disabled in the index, a later match retrieved a
\* creative that has no enabled flag and left the disabled one out
EnabledFilterWitness ==
    \E n \in Ran :
        /\ hist[n].ver_start = admin_ops
        /\ \E c \in DOMAIN points :
              /\ points[c].enabled = "false"
              /\ FilterMatches(CallerFilter(hist[n].req), points[c])
              /\ c \notin HitIds(hist[n].raw_hits)
        /\ \E i \in 1..Len(hist[n].raw_hits) :
              hist[n].raw_hits[i].payload.enabled = "missing"

\* one write into a bounded store: the survivors are the youngest entries
\* of the old store in their order, what was written follows them, and
\* nothing is dropped unless the store ends up full
FifoWrite(old, new, cap) ==
    \E k \in 0..Len(old) :
        LET kept == SubSeq(old, k + 1, Len(old))
        IN /\ Len(new) > Len(kept)
           /\ SubSeq(new, 1, Len(kept)) = kept
           /\ \A i \in (Len(kept) + 1)..Len(new) : new[i].key \notin DictKeys(old)
           /\ k > 0 => Len(new) = cap

LastKey(d) == d[Len(d)].key

CapacityStep ==
    /\ trace_store' # trace_store
       => /\ FifoWrite(trace_store, trace_store', TRACE_STORE_MAX)
          /\ \A candidate \in CandidatesOf(hist'[Len(hist')]) :
                candidate.match_id \in DictKeys(trace_store')
    /\ embedding_cache' # embedding_cache
       => /\ FifoWrite(embedding_cache, embedding_cache', EMBEDDING_CACHE_MAX_SIZE)
          /\ \E w \in Workers :
                /\ wk[w].pc = "embed"
                /\ LastKey(embedding_cache') = NormalizeText(wk[w].req.context_text)
    /\ match_cache' # match_cache
       => /\ FifoWrite(match_cache, match_cache', CACHE_MAX_SIZE)
          /\ LastKey(match_cache') = ComputeCacheKey(hist'[Len(hist')].req)

WithinCapacity ==
    /\ Len(trace_store) <= TRACE_STORE_MAX
    /\ Len(embedding_cache) <= EMBEDDING_CACHE_MAX_SIZE
    /\ Len(match_cache) <= CACHE_MAX_SIZE

RECURSIVE Words(_)
Words(s) ==
    LET t == LStrip(s)
    IN IF t = <<>> THEN <<>>
       ELSE <<SubSeq(t, 1, WordLen(t))>> \o Words(SubSeq(t, WordLen(t) + 1, Len(t)))

\* two requests that are the same once whitespace is normalised
SameNormalizedInput(a, b) ==
    /\ Words(a.context_text) = Words(b.context_text)
    /\ [a EXCEPT !.context_text = <<>>] = [b EXCEPT !.context_text = <<>>]

\* the candidate list of a response without the ids minted for the call
Unlabelled(response) ==
    [k \in 1..Len(response.candidates) |->
        [response.candidates[k] EXCEPT !.match_id = NoMatchId]]

\* consecutive calls made through the same entry point
SuccessivePairs(tool) ==
    {n \in 1..(Len(hist) - 1) : hist[n].tool = tool /\ hist[n + 1].tool = tool}

StoresAndClockUnchanged(a, b) ==
    /\ a.ev_start = b.ev_end
    /\ a.now_start = b.now_end
    /\ a.ver_start = b.ver_end

RECURSIVE PaceAll(_, _, _, _, _)
PaceAll(eligible, evts, req, request_id, t) ==
    IF eligible = <<>> THEN <<>>
    ELSE LET hit == Head(eligible)
             pacing == PacingEvaluate(hit.payload, analytics_present, evts, t)
             candidate == HitToCandidate(hit, request_id, pacing.weight, pacing.reason,
                              BoostFactor(BoostLookup(req.boost_keywords), hit.payload))
         IN IF ~pacing.allow
            THEN PaceAll(Tail(eligible), evts, req, request_id, t)
            ELSE <<candidate>>
                 \o PaceAll(Tail(eligible),
                            IF analytics_present
                            THEN RecordMatch(evts, t, request_id, hit.campaign_id,
                                             hit.creative_id, candidate.score,
                                             candidate.pacing_weight,
                                             CostPerImpression(hit.payload))
                            ELSE evts,
                            req, request_id, t)

\* match_service.py:62-195: the candidate list match builds for a request
\* against the index, an analytics log and a clock reading
MatchNow(req, evts, t) ==
    LET raw_hits == Query(points, Embed(NormalizeText(req.context_text)),
                          BuildFilter(req.constraints,
                                      PlacementContext(req.placement, req.surface)),
                          req.top_k)
        eligible == PolicyApply(raw_hits, req.constraints, req.context_text, t)
    IN PaceAll(eligible, evts, req, 0, t)

\* calls answered from the result cache
CacheHits == {n \in 1..Len(hist) : hist[n].cache_hit}

\* a candidate's campaign had spent a budget when the call was made
BudgetSpentAt(h, candidate) ==
    LET payload == points[candidate.creative_id]
    IN /\ analytics_present
       /\ candidate.campaign_id # ""
       /\ \/ /\ payload.total_budget # NoValue
             /\ SpendUpTo(h.ev_start, candidate.campaign_id, 0) >= payload.total_budget
          \/ /\ payload.daily_budget # NoValue
             /\ SpendUpTo(h.ev_start, candidate.campaign_id, Midnight(h.now_start))
                    >= payload.daily_budget

\* C11: the list match_cached hands back is, apart from the ids, the list
\* match would build for the same request against the index, the analytics
\* log and the clock of the call; a cache hit in particular hands back no
\* candidate whose campaign's total or daily budget is spent at that time.
CacheTransparent ==
    /\ \A n \in 1..Len(hist) :
          (hist[n].tool = "match_cached" /\ hist[n].now_start = hist[n].now_end)
          => Unlabelled(hist[n].response)
                 = Unlabelled([candidates |->
                       MatchNow(hist[n].req, SubSeq(events, 1, hist[n].ev_start),
                                hist[n].now_start)])
    /\ \A n \in CacheHits : \A candidate \in CandidatesOf(hist[n]) :
          ~BudgetSpentAt(hist[n], candidate)

\* a step that answers a call from the result cache
CacheHitStep ==
    /\ Len(hist') = Len(hist) + 1
    /\ hist'[Len(hist')].cache_hit

\* what a cache hit leaves alone: the analytics log, the embedding cache, the
\* index, the result cache, the audit-trace store, and every pipeline stage
\* (the embedding provider and the index are called from the stages only)
CacheHitFrame ==
    /\ events' = events
    /\ embedding_cache' = embedding_cache
    /\ points' = points
    /\ match_cache' = match_cache
    /\ trace_store' = trace_store
    /\ wk' = wk
    /\ next_rid' = next_rid
    /\ Len(heap') = Len(heap)

\* C12: a result-cache hit in match_cached records no analytics event, runs
\* no stage of the pipeline (neither the embedding provider nor the index is
\* called), inserts nothing into the audit-trace store, and the trace it
\* hands back is annotated source = 'cache'.
CacheHitHasNoSideEffect ==
    [][CacheHitStep => /\ CacheHitFrame
                       /\ heap'[hist'[Len(hist')].trace].source = "cache"]_vars

\* a hit has handed back a non-empty cached list, its trace marked 'cache',
\* while the analytics log holds the events of the call that filled the cache
CacheHitWitness ==
    /\ hist # <<>>
    /\ hist[Len(hist)].cache_hit
    /\ hist[Len(hist)].response.candidates # <<>>
    /\ heap[hist[Len(hist)].trace].source = "cache"
    /\ hist[Len(hist)].ev_start = hist[Len(hist)].ev_end
    /\ events # <<>>

\* the creative ids of a sequence of hits or candidates, in order
IdsOf(items) == [k \in 1..Len(items) |-> items[k].creative_id]

\* the retrieved hits of a call that PolicyEngine.apply kept and the pacing
\* engine admitted, in the order the index returned them
KeptHits(h) ==
    LET eligible_ids == {h.eligible[k].creative_id : k \in 1..Len(h.eligible)}
        paced_out == {h.pace_log[k].creative_id : k \in PacingDenied(h)}
        Kept(hit) == hit.creative_id \in eligible_ids /\ hit.creative_id \notin paced_out
    IN SelectSeq(h.raw_hits, Kept)

MatchingEntries ==
    LET payload == probe.payload
        topics == {Lower(payload.topics[i]) : i \in 1..Len(payload.topics)}
    IN {i \in 1..Len(probe.boost_keywords) :
           LET keyword == Lower(probe.boost_keywords[i][1])
           IN \/ IsSubstr(keyword, Lower(payload.title))
              \/ IsSubstr(keyword, Lower(payload.body))
              \/ keyword \in topics}

\* C14: whatever the boost map (factors below 0.1, below 1.0 or above 2.0
\* included), a candidate's boost_applied lies between 1.0 and 2.0, and it
\* is exactly 1.0 when no boost keyword matches the creative's title, body
\* or topics.
BoostCap ==
    (probe.kind = "boost" /\ probe.done)
    => /\ probe.boost_applied >= BoostOne
       /\ probe.boost_applied <= 2 * BoostOne
       /\ MatchingEntries = {} => probe.boost_applied = BoostOne

\* a matching factor above 2.0 was capped at 2.0, next to an entry with a
\* factor below 0.1 that matches nothing
BoostCapWitness ==
    /\ probe.kind = "boost"
    /\ probe.done
    /\ \E i \in MatchingEntries : probe.boost_keywords[i][2] > 2 * BoostOne
    /\ \E i \in 1..Len(probe.boost_keywords) :
          i \notin MatchingEntries /\ probe.boost_keywords[i][2] < 1
    /\ probe.boost_applied = 2 * BoostOne

\* a factor clamped to [0.1, 2.0]
ClampedFactor(factor) ==
    IF factor < 1 THEN 1 ELSE IF factor > 2 * BoostOne THEN 2 * BoostOne ELSE factor

\* C15: the boost applied to a creative is the largest clamped factor among
\* all entries of the boost map whose keyword matches it (never below the
\* 1.0 of a creative that nothing boosts, never a product), for every boost
\* map, maps whose keys differ only by letter case included.
BoostIsMaxOfMatching ==
    (probe.kind = "boost" /\ probe.done)
    => LET factors == {BoostOne}
                \cup {ClampedFactor(probe.boost_keywords[i][2]) : i \in MatchingEntries}
       IN \A best \in factors :
             (\A f \in factors : f <= best) => probe.boost_applied = best

MatchIdsOf(h) == {candidate.match_id : candidate \in CandidatesOf(h)}

\* every candidate's id is derived from its response's request id and its
\* creative id, and two requests share neither request id nor match ids
MatchIdsDerived ==
    /\ \A n \in Ran : \A candidate \in CandidatesOf(hist[n]) :
          candidate.match_id = <<hist[n].response.request_id, candidate.creative_id>>
    /\ \A n, m \in Ran :
          n # m => /\ hist[n].response.request_id # hist[m].response.request_id
                   /\ MatchIdsOf(hist[n]) \cap MatchIdsOf(hist[m]) = {}

\* a write to the audit-trace store leaves the entries it keeps as they were
TraceStoreWriteStep ==
    \A k \in DictKeys(trace_store) \cap DictKeys(trace_store') :
        DictGet(trace_store', k) = DictGet(trace_store, k)

\* C16: a candidate's match_id is uuid5(request_id of its response, its
\* creative_id); every match mints a fresh request_id, so the candidates of
\* two requests carry different match_ids, for the same creative and the
\* same input too, and storing the trace of one request never overwrites
\* the entry of another.
MatchIdsDeterministic == []MatchIdsDerived /\ [][TraceStoreWriteStep]_vars

\* the same request matched twice handed back the same creative under two
\* match ids, each resolving to its own request's trace
MatchIdsWitness ==
    \E n, m \in Ran :
        /\ n < m
        /\ hist[n].tool = "match" /\ hist[m].tool = "match"
        /\ hist[n].req = hist[m].req
        /\ \E a \in CandidatesOf(hist[n]) : \E b \in CandidatesOf(hist[m]) :
              /\ a.creative_id = b.creative_id
              /\ a.match_id # b.match_id
              /\ DictHas(trace_store, a.match_id)
              /\ DictHas(trace_store, b.match_id)
              /\ DictGet(trace_store, a.match_id) = hist[n].response.request_id
              /\ DictGet(trace_store, b.match_id) = hist[m].response.request_id

\* the constraint a filter field is built from, with its operator, in 'must'
\* and in 'must_not'
MustFields == {"topics", "locale", "verticals", "audience_segments", "keywords"}

MustNotFields == {"advertiser_id", "campaign_id", "creative_id"}

\* the value the predicate on a field has to carry
ExpectedValue(constraints, field) ==
    CASE field = "topics" -> constraints.topics
      [] field = "locale" -> <<constraints.locale, "">>
      [] field = "verticals" -> constraints.verticals
      [] field = "audience_segments" -> constraints.audience_segments
      [] field = "keywords" -> constraints.keywords
      [] field = "advertiser_id" -> constraints.exclude_advertiser_ids
      [] field = "campaign_id" -> constraints.exclude_campaign_ids
      [] field = "creative_id" -> constraints.exclude_creative_ids

IsSet(constraints, field) ==
    IF field = "locale" THEN constraints.locale # ""
    ELSE ExpectedValue(constraints, field) # <<>>

\* a predicate list holds one predicate with the operator for each set field
\* among fields, and nothing else
ExactlyThePredicates(predicates, constraints, fields, op) ==
    /\ \A f \in fields :
          Cardinality({i \in 1..Len(predicates) : predicates[i].field = f})
              = IF IsSet(constraints, f) THEN 1 ELSE 0
    /\ \A i \in 1..Len(predicates) :
          /\ predicates[i].field \in fields
          /\ predicates[i].op = op
          /\ predicates[i].value = ExpectedValue(constraints, predicates[i].field)

\* C17: build_filter depends on the constraints only: 'must' holds exactly
\* one any_of predicate for each non-empty field among topics, locale (with
\* the value [locale, ""]), verticals, audience_segments and keywords,
\* 'must_not' exactly one not_in predicate for each non-empty exclusion list,
\* empty fields add nothing, and a request differing only in placement,
\* surface, age_restricted_ok or sensitive_ok gets the same filter.
BuildFilterExact ==
    (probe.kind = "filter" /\ probe.done)
    => /\ ExactlyThePredicates(probe.filter.must, probe.constraints,
                               MustFields, "any_of")
       /\ ExactlyThePredicates(probe.filter.must_not, probe.constraints,
                               MustNotFields, "not_in")
       /\ (\A f \in MustFields \cup MustNotFields : ~IsSet(probe.constraints, f))
          => probe.filter = [must |-> <<>>, must_not |-> <<>>]
       /\ probe.other_filter = probe.filter

\* every field set: five any_of and three not_in predicates, the same for a
\* request with another placement, surface and flags
BuildFilterWitness ==
    /\ probe.kind = "filter"
    /\ probe.done
    /\ \A f \in MustFields \cup MustNotFields : IsSet(probe.constraints, f)
    /\ Len(probe.filter.must) = 5
    /\ Len(probe.filter.must_not) = 3
    /\ probe.other_placement.placement # probe.placement.placement
    /\ probe.other_placement.surface # probe.placement.surface
    /\ probe.other_constraints.age_restricted_ok # probe.constraints.age_restricted_ok
    /\ probe.other_constraints.sensitive_ok # probe.constraints.sensitive_ok
    /\ probe.other_filter = probe.filter

\* C18: when the embedding provider, the index query, an analytics read or
\* an analytics write raises at any stage of a match, the request ends with
\* an error and the caller gets no response, not even one with the
\* candidates admitted before the failure: the error is not swallowed into
\* a response.
FailureAbortsRequest ==
    probe.kind = "failure" => (probe.raised /\ probe.response = <<>>)

\* the context of a request has no word left after normalization
EmptyAfterNormalization(req) == Words(req.context_text) = <<>>

\* C19: a match request whose context is empty after normalization (a
\* context of whitespace only, say) fails as InvalidInput before the
\* pipeline runs: it never gets past the point where the embedding provider
\* would be called, so the index is not queried, no analytics event is
\* recorded for it and no response is handed back.
BlankContextFailsEarly ==
    /\ \A w \in Workers :
          EmptyAfterNormalization(wk[w].req) => wk[w].pc \in {"idle", "embed"}
    /\ \A n \in 1..Len(hist) : ~EmptyAfterNormalization(hist[n].req)

\* the probed payload leaves all six policy fields out
AllPolicyFieldsMissing ==
    /\ probe.payload.enabled = "missing"
    /\ probe.payload.age_restricted = "missing"
    /\ probe.payload.sensitive = "missing"
    /\ probe.payload.blocked_keywords.shape = "missing"
    /\ probe.payload.start_at.shape = "missing"
    /\ probe.payload.end_at.shape = "missing"

\* C20: PolicyEngine.apply raises on no payload, whatever of enabled,
\* age_restricted, sensitive, blocked_keywords, start_at and end_at is
\* missing, null or of an unexpected shape (a schedule endpoint that is no
\* string or no timestamp, a blocked keyword that is no string); it returns
\* a result, and a payload without any of the fields is eligible (enabled,
\* unflagged, no blocked keyword, unbounded schedule).
ApplyNeverThrows ==
    (probe.kind = "shape" /\ probe.done)
    => /\ ~probe.result.raised
       /\ AllPolicyFieldsMissing => probe.result.eligible = <<probe.payload>>

\* requests between the capacity test and the insert of the embedding cache
InFlightInserts ==
    Cardinality({w \in Workers :
        wk[w].pc \in {"embed_full", "embed_oldest", "embed_pop", "embed_set"}})

\* C21: whatever the interleaving of requests that run at the same time, no
\* statement on the embedding cache, the match-result cache or the
\* audit-trace store raises (two requests evicting at once included), and
\* no store holds more than its capacity plus the inserts in flight.
SharedStoresSafe ==
    /\ probe.kind # "store_error"
    /\ Len(embedding_cache) <= EMBEDDING_CACHE_MAX_SIZE + InFlightInserts
    /\ Len(match_cache) <= CACHE_MAX_SIZE
    /\ Len(trace_store) <= TRACE_STORE_MAX

\* calls made as dry runs
DryRuns == {n \in 1..Len(hist) : hist[n].tool = "match_dry_run"}

\* C22: a dry run leaves the analytics log as it found it: after it the log
\* holds exactly the events it held before, so that pacing decides for
\* every later request as if the dry run had not happened.
DryRunRecordsNothing ==
    \A n \in DryRuns :
        /\ hist[n].ev_end = hist[n].ev_start
        /\ \A e \in 1..Len(events) : events[e].request_id # hist[n].response.request_id

\* the lower-cased words of the context as the caller sent it
ContextTokens(text) == {Lower(Words(text)[j]) : j \in 1..Len(Words(text))}

\* some keyword of the blocked list, lower-cased, is a token of the context
\* or a part of one
KeywordHits(blocked, text) ==
    \E i \in 1..Len(blocked) : \E t \in ContextTokens(text) :
        Lower(blocked[i]) = t \/ IsSubstr(Lower(blocked[i]), t)

RawIndex(h, creative_id) ==
    CHOOSE i \in 1..Len(h.raw_hits) : h.raw_hits[i].creative_id = creative_id

\* C24: in the audit trace of every request the decisions of the hits that
\* policy denied come first, in the order the index returned the hits, and
\* after them the accepted hits with the pacing denials, again in that
\* order: no policy denial stands behind an accepted or pacing-denied
\* decision.
TraceDecisionsPartitioned ==
    \A n \in Ran :
        LET h == hist[n]
            decisions == heap[h.trace].decisions
            denied == {i \in 1..Len(decisions) : decisions[i].reason \in PolicyDenials}
            others == (1..Len(decisions)) \ denied
            InIndexOrder(part) ==
                \A i, j \in part :
                    i < j => RawIndex(h, decisions[i].creative_id)
                                 <= RawIndex(h, decisions[j].creative_id)
        IN /\ \A i \in others, j \in denied : j < i
           /\ InIndexOrder(denied)
           /\ InIndexOrder(others)

\* the probed campaign has spent more today than its daily budget allows
\* for the part of the day that has passed
AheadOfSchedule ==
    LET payload == probe.payload
        elapsed == now - Midnight(now)
    IN /\ payload.daily_budget # NoValue
       /\ payload.daily_budget > 0
       /\ elapsed > 0
       /\ SpendUpTo(Len(events), payload.campaign_id, Midnight(now)) * DayLen
              > payload.daily_budget * elapsed

EventsOf(h) ==
    LET Own(e) == e.request_id = h.response.request_id IN SelectSeq(events, Own)

\* cpm / 1000 of a payload, the default cpm standing in for a missing one
CpmCost(payload) == IF payload.cpm = NoValue THEN DefaultCpm ELSE payload.cpm

RecordedAsReturned ==
    analytics_present
    => \A n \in Ran :
          LET candidates == hist[n].response.candidates
              own == EventsOf(hist[n])
          IN /\ Len(own) = Len(candidates)
             /\ \A k \in 1..Len(own) :
                   /\ own[k].creative_id = candidates[k].creative_id
                   /\ own[k].campaign_id = candidates[k].campaign_id
                   /\ own[k].score = candidates[k].score
                   /\ own[k].pacing_weight = candidates[k].pacing_weight
                   /\ own[k].cost = CpmCost(points[candidates[k].creative_id])

EventsAppendOnly ==
    /\ Len(events') >= Len(events)
    /\ SubSeq(events', 1, Len(events)) = events

\* C26: with an analytics store, a match that returns has written exactly
\* one event for each candidate of its response and none for another hit;
\* the event's cost is the creative's cpm / 1000 whatever the cpm (0
\* included), its score the candidate's final score, its pacing_weight the
\* candidate's; events already in the log are neither changed nor removed.
RecordStageExact == []RecordedAsReturned /\ [][EventsAppendOnly]_vars

\* C27: within one match a retrieved hit is in the list PolicyEngine.apply
\* kept exactly when the decision PolicyEngine.reason recorded for it is
\* 'allowed', also when the clock passes a creative's start_at or end_at
\* between the two: no creative is handed back as a candidate while its
\* decision says 'denied: schedule_inactive', and none is dropped while its
\* decision says 'allowed'.
EligibilityMatchesAudit ==
    \A n \in Ran :
        LET h == hist[n]
            decisions == heap[h.trace].decisions
            eligible_ids == {h.eligible[k].creative_id : k \in 1..Len(h.eligible)}
        IN /\ \A i \in 1..Len(h.raw_hits) :
                 h.raw_hits[i].creative_id \in eligible_ids
                     <=> decisions[i].reason = "allowed"
           /\ \A candidate \in CandidatesOf(h) :
                 decisions[RawIndex(h, candidate.creative_id)].reason
                     # "denied: schedule_inactive"

\* C28: when a match ends with an error after it admitted candidates (the
\* analytics write of a later candidate or a later pacing read raised), the
\* analytics log holds no event of that request: spend is charged only for
\* candidates that were handed back to a caller.
AbortLeavesNoEvent ==
    probe.kind = "failure"
    => \A e \in 1..Len(events) : events[e].request_id # probe.rid

\* the trace of every call that ran match_cached's fresh path says 'fresh'
FreshStaysFresh ==
    \A n \in Ran :
        hist[n].tool = "match_cached" => heap[hist[n].trace].source = "fresh"

\* the traces handed back so far are left as they are
ReturnedTracesKept ==
    \A n \in 1..Len(hist) : heap'[hist[n].trace] = heap[hist[n].trace]

\* C29: the response and the trace a fresh match_cached call handed back,
\* and every copy of that trace in the audit-trace store, stay as they were
\* through later match_cached calls: the trace's source is still 'fresh'
\* after a hit on the same key was served with source 'cache'.
CacheHitKeepsEarlierResults == []FreshStaysFresh /\ [][ReturnedTracesKept]_vars

\* the decisions of a trace that name a creative
DecisionsFor(decisions, creative_id) ==
    {i \in 1..Len(decisions) : decisions[i].creative_id = creative_id}

\* C30: the audit trace of every match holds one decision for each hit the
\* index returned and no more; the analysis of campaigns_explain reports
\* total_candidates = the number of hits, accepted = the number of
\* candidates of the response and accepted + rejected_by_policy +
\* rejected_by_pacing = total_candidates, also when pacing denied a hit that
\* policy let through; and every candidate has one decision, which carries
\* its match_id, pacing weight and boost.
OneOutcomePerHit ==
    /\ \A n \in Ran :
          LET h == hist[n]
              decisions == heap[h.trace].decisions
          IN /\ Len(decisions) = Len(h.raw_hits)
             /\ \A i \in 1..Len(h.raw_hits) :
                   DecisionsFor(decisions, h.raw_hits[i].creative_id) = {i}
             /\ \A candidate \in CandidatesOf(h) :
                   \A i \in DecisionsFor(decisions, candidate.creative_id) :
                       /\ decisions[i].match_id = candidate.match_id
                       /\ decisions[i].pacing_weight = candidate.pacing_weight
                       /\ decisions[i].boost_applied = candidate.boost_applied
    /\ (probe.kind = "explain" /\ probe.result.found /\ probe.match_id \in LastMatchIds)
       => LET h == hist[Len(hist)]
              analysis == probe.result.analysis
          IN /\ analysis.total_candidates = Len(h.raw_hits)
             /\ analysis.accepted = Len(h.response.candidates)
             /\ analysis.accepted + analysis.rejected_by_policy
                    + analysis.rejected_by_pacing = analysis.total_candidates

====
